---- MODULE Spec2Model ----
(***************************************************************************)
(* Verification model of the CricketGame backend: the Innings state        *)
(* machine (game/innings.py), the Match sequencer (game/match.py) and the  *)
(* per-room session orchestrator (realtime/match/actions, realtime/cpu.py).*)
(*                                                                         *)
(* Conventions.  Python lists are TLA+ sequences, so every index is        *)
(* 1-based: striker_idx = 1 is batting_side[0] of the source.  None is     *)
(* modelled as 0 for indices, targets and milestones, and as NoPlayer for  *)
(* names.                                                                  *)
(***************************************************************************)
EXTENDS Integers, Sequences, FiniteSets, TLC

NoPlayer == "-"
None == 0

\* ------------------------------------------------------------------------
\* Bounds of the innings specification
\* ------------------------------------------------------------------------
MaxBalls == 6
MaxResolveBalls == 2

\* Bounds of the room specification: balls resolved in one run and matches
\* created in one run
MaxDeliveries == 4
MaxMatches == 1
MaxOvers == 2
MaxWickets == 2

\* The move alphabet of the game: 0..6.
MOVE_MAX == 6
Moves == 0..MOVE_MAX
BALLS_PER_OVER == 6

\* The moves played in the ball-by-ball innings specification: a wicket
\* (0,0), the bowler's number scored (0,1) and (0,3), the batter's number
\* scored (2,0).
\* Side sizes and chase targets of the innings specifications.
SideSizes == {1, 2}
Targets == {None, 3}

InningsBatMoves == {0, 2}
InningsBowlMoves == {0, 1, 3}
InningsBalls == {p \in InningsBatMoves \X InningsBowlMoves : p[1] = 0 \/ p[2] = 0}

\* The moves played in the room specification (by clients, by
\* random.randint in the countdowns and by cpu_pick_move), the choices at
\* the toss and the players random.choice may make the toss caller.
\* the moves played in a room: a bat move against each bowl move gives a
\* wicket (0 against 0) and a scoring ball (0 against 1)
BatMoves == {0}
BowlMoves == {0, 1}
PlayMoves(role) == IF role = "bat" THEN BatMoves ELSE BowlMoves
\* the outcomes of call == coin
TossOutcomes == {TRUE}
TossChoices == {"bat", "bowl"}
TossCallers(match) == {match.side_a[1], match.side_b[1]}

\* ------------------------------------------------------------------------
\* game/cards.py
\* ------------------------------------------------------------------------
BattingCard == [runs |-> 0, balls |-> 0, fours |-> 0, sixes |-> 0,
                dismissal |-> "not out", is_out |-> FALSE]

BowlingCard == [overs_completed |-> 0, balls_bowled_in_over |-> 0,
                runs_conceded |-> 0, wickets |-> 0]

Range(s) == {s[i] : i \in 1..Len(s)}

\* list.index(x): position of the first occurrence of x
IndexOf(s, x) == CHOOSE i \in 1..Len(s) : s[i] = x /\ \A j \in 1..(i-1) : s[j] # x

\* ------------------------------------------------------------------------
\* game/innings.py
\* ------------------------------------------------------------------------
NewInnings(batting_side, bowling_side, total_overs, total_wickets, target, is_team_mode) ==
    [batting_side |-> batting_side,
     bowling_side |-> bowling_side,
     total_overs |-> total_overs,
     total_wickets |-> total_wickets,
     target |-> target,
     is_team_mode |-> is_team_mode,
     batting_cards |-> [n \in Range(batting_side) |-> BattingCard],
     striker_idx |-> 1,
     non_striker_idx |-> IF Len(batting_side) > 1 THEN 2 ELSE None,
     wickets_fallen |-> 0,
     bowling_cards |-> [n \in Range(bowling_side) |-> BowlingCard],
     current_bowler_idx |-> 1,
     overs_completed |-> 0,
     balls_in_over |-> 0,
     total_runs |-> 0,
     ball_log |-> << >>,
     is_complete |-> FALSE,
     last_batter_out |-> NoPlayer,
     last_bowler |-> NoPlayer,
     needs_batter_choice |-> (is_team_mode /\ Len(batting_side) > 1),
     needs_bowler_choice |-> (is_team_mode /\ Len(bowling_side) > 1)]

Striker(inn) == inn.batting_side[inn.striker_idx]

NonStriker(inn) ==
    IF inn.non_striker_idx # None THEN inn.batting_side[inn.non_striker_idx] ELSE NoPlayer

CurrentBowler(inn) == inn.bowling_side[inn.current_bowler_idx]

\* The dict returned by resolve_ball; absent keys read with .get() are FALSE.
EmptyResult ==
    [error |-> FALSE, ball_num |-> 0, striker |-> NoPlayer, bowler |-> NoPlayer,
     bat_move |-> 0, bowl_move |-> 0, runs |-> 0, is_out |-> FALSE,
     is_four |-> FALSE, is_six |-> FALSE, innings_runs |-> 0,
     innings_wickets |-> 0, innings_overs |-> <<0, 0>>,
     over_complete |-> FALSE, innings_complete |-> FALSE,
     target_chased |-> FALSE, milestone |-> None, hat_trick |-> FALSE,
     needs_batter_choice |-> FALSE, needs_bowler_choice |-> FALSE]

ErrorResult == [EmptyResult EXCEPT !.error = TRUE]

\* _rotate_strike that moves the non-striker to the striker's end only
RotateStrikeStrikerOnly(inn) ==
    IF inn.non_striker_idx # None
    THEN [inn EXCEPT !.striker_idx = inn.non_striker_idx]
    ELSE inn

\* _rotate_strike
RotateStrike(inn) ==
    IF inn.non_striker_idx # None
    THEN [inn EXCEPT !.striker_idx = inn.non_striker_idx,
                     !.non_striker_idx = inn.striker_idx]
    ELSE inn

\* indices i of the batting side that are not out and not at the crease, in order
AutoAdvanceAvailable(inn) ==
    SelectSeq([i \in 1..Len(inn.batting_side) |-> i],
              LAMBDA i : /\ ~inn.batting_cards[inn.batting_side[i]].is_out
                         /\ i # inn.striker_idx
                         /\ (inn.non_striker_idx = None \/ i # inn.non_striker_idx))

\* _handle_wicket_fall: returns the innings and the needs_batter_choice key of the result
HandleWicketFall(inn) ==
    IF inn.wickets_fallen >= inn.total_wickets
    THEN [inn |-> inn, needs_batter_choice |-> FALSE]
    ELSE LET a == [inn EXCEPT !.last_batter_out = inn.batting_side[inn.striker_idx]]
             b == IF a.non_striker_idx # None
                  THEN [a EXCEPT !.striker_idx = a.non_striker_idx,
                                 !.non_striker_idx = None]
                  ELSE a
         IN IF b.is_team_mode /\ Len(b.batting_side) > 1
            THEN [inn |-> [b EXCEPT !.needs_batter_choice = TRUE],
                  needs_batter_choice |-> TRUE]
            ELSE LET available == AutoAdvanceAvailable(b)
                 IN [inn |-> IF Len(available) > 0
                             THEN [b EXCEPT !.non_striker_idx = available[1]]
                             ELSE b,
                     needs_batter_choice |-> FALSE]

\* _next_bowler that does not record the bowler of the over just bowled
NextBowlerForgetsLast(inn) ==
    IF inn.is_team_mode /\ Len(inn.bowling_side) > 1
    THEN [inn |-> [inn EXCEPT !.needs_bowler_choice = TRUE],
          needs_bowler_choice |-> TRUE]
    ELSE IF Len(inn.bowling_side) > 1
         THEN [inn |-> [inn EXCEPT !.current_bowler_idx =
                                      (inn.current_bowler_idx % Len(inn.bowling_side)) + 1],
               needs_bowler_choice |-> FALSE]
         ELSE [inn |-> inn, needs_bowler_choice |-> FALSE]

\* _next_bowler: returns the innings and the needs_bowler_choice key of the result
NextBowler(inn) ==
    IF inn.is_team_mode /\ Len(inn.bowling_side) > 1
    THEN [inn |-> [inn EXCEPT !.last_bowler = CurrentBowler(inn),
                              !.needs_bowler_choice = TRUE],
          needs_bowler_choice |-> TRUE]
    ELSE IF Len(inn.bowling_side) > 1
         THEN [inn |-> [inn EXCEPT !.current_bowler_idx =
                                      (inn.current_bowler_idx % Len(inn.bowling_side)) + 1],
               needs_bowler_choice |-> FALSE]
         ELSE [inn |-> inn, needs_bowler_choice |-> FALSE]

CheckInningsCompleteLateWicket(inn) ==
    \/ inn.wickets_fallen > inn.total_wickets
    \/ (inn.overs_completed >= inn.total_overs /\ inn.balls_in_over = 0)
    \/ (inn.target # None /\ inn.total_runs >= inn.target)

\* _check_innings_complete
CheckInningsComplete(inn) ==
    \/ inn.wickets_fallen >= inn.total_wickets
    \/ (inn.overs_completed >= inn.total_overs /\ inn.balls_in_over = 0)
    \/ (inn.target # None /\ inn.total_runs >= inn.target)

RunsScoredBowlerNumber(bat_move, bowl_move) == bowl_move

\* the scoring rule of resolve_ball for a ball that is not a wicket
RunsScored(bat_move, bowl_move) == IF bat_move = 0 THEN bowl_move ELSE bat_move

\* the hat-trick test looking at the previous ball only
HatTrickLastTwo(inn, bowler) ==
    LET n == Len(inn.ball_log)
    IN /\ n >= 1
       /\ inn.ball_log[n].is_out /\ inn.ball_log[n].bowler = bowler

\* resolve_ball, lines 97-103: the two previous balls of the log are wickets
\* of the current bowler
HatTrick(inn, bowler) ==
    LET n == Len(inn.ball_log)
    IN /\ n >= 2
       /\ inn.ball_log[n].is_out /\ inn.ball_log[n].bowler = bowler
       /\ inn.ball_log[n-1].is_out /\ inn.ball_log[n-1].bowler = bowler

\* resolve_ball: returns the innings after the ball and the result dict
ResolveBall(inn, bat_move, bowl_move) ==
    IF inn.is_complete THEN [inn |-> inn, result |-> ErrorResult]
    ELSE
    LET striker == Striker(inn)
        bowler == CurrentBowler(inn)
        r0 == [EmptyResult EXCEPT
                 !.ball_num = inn.overs_completed * 6 + inn.balls_in_over + 1,
                 !.striker = striker, !.bowler = bowler,
                 !.bat_move = bat_move, !.bowl_move = bowl_move]
        s1 == [inn EXCEPT !.batting_cards[striker].balls = @ + 1,
                          !.bowling_cards[bowler].balls_bowled_in_over = @ + 1,
                          !.balls_in_over = @ + 1]
        is_out == (bat_move = bowl_move)
        \* wicket branch
        sw == [s1 EXCEPT !.batting_cards[striker].is_out = TRUE,
                         !.batting_cards[striker].dismissal = bowler,
                         !.bowling_cards[bowler].wickets = @ + 1,
                         !.wickets_fallen = @ + 1]
        hat == HatTrick(inn, bowler)
        wf == HandleWicketFall(sw)
        \* scoring branch
        runs == RunsScored(bat_move, bowl_move)
        old_runs == s1.batting_cards[striker].runs
        sr0 == [s1 EXCEPT !.batting_cards[striker].runs = @ + runs,
                          !.bowling_cards[bowler].runs_conceded = @ + runs,
                          !.total_runs = @ + runs]
        milestone == IF old_runs < 50 /\ 50 <= old_runs + runs THEN 50
                     ELSE IF old_runs < 100 /\ 100 <= old_runs + runs THEN 100
                     ELSE None
        sr1 == IF runs = 4 THEN [sr0 EXCEPT !.batting_cards[striker].fours = @ + 1]
               ELSE IF runs = 6 THEN [sr0 EXCEPT !.batting_cards[striker].sixes = @ + 1]
               ELSE sr0
        sr2 == IF runs \in {1, 3} THEN RotateStrike(sr1) ELSE sr1
        s2 == IF is_out THEN wf.inn ELSE sr2
        r2 == IF is_out
              THEN [r0 EXCEPT !.is_out = TRUE, !.runs = 0, !.hat_trick = hat,
                              !.needs_batter_choice = wf.needs_batter_choice]
              ELSE [r0 EXCEPT !.runs = runs, !.milestone = milestone,
                              !.is_four = (runs = 4), !.is_six = (runs = 6)]
        \* end of the over
        over == s2.balls_in_over >= BALLS_PER_OVER
        so0 == [s2 EXCEPT !.overs_completed = @ + 1,
                          !.balls_in_over = 0,
                          !.bowling_cards[bowler].overs_completed = @ + 1,
                          !.bowling_cards[bowler].balls_bowled_in_over = 0]
        nb == NextBowler(RotateStrike(so0))
        s3 == IF over THEN nb.inn ELSE s2
        r3 == IF over
              THEN [r2 EXCEPT !.over_complete = TRUE,
                              !.needs_bowler_choice = nb.needs_bowler_choice]
              ELSE r2
        r4 == [r3 EXCEPT !.innings_runs = s3.total_runs,
                         !.innings_wickets = s3.wickets_fallen,
                         !.innings_overs = <<s3.overs_completed, s3.balls_in_over>>]
        complete == CheckInningsComplete(s3)
        r5 == IF complete
              THEN [r4 EXCEPT !.innings_complete = TRUE,
                              !.target_chased = (s3.target # None /\ s3.total_runs >= s3.target)]
              ELSE r4
        s4 == [s3 EXCEPT !.is_complete = complete,
                         !.ball_log = Append(@, r5)]
    IN [inn |-> s4, result |-> r5]

\* available_next_batters: a list of [player, disabled]
AvailableNextBatters(inn) ==
    LET striker_name == inn.batting_side[inn.striker_idx]
        non_striker_name == NonStriker(inn)
        kept == SelectSeq(inn.batting_side,
                  LAMBDA name : ~(~inn.needs_batter_choice
                                  /\ (name = striker_name \/ name = non_striker_name)))
        options == [i \in 1..Len(kept) |->
                      [player |-> kept[i],
                       disabled |-> (kept[i] = inn.last_batter_out
                                     \/ inn.batting_cards[kept[i]].is_out)]]
    IN IF Len(options) > 0 /\ \A i \in 1..Len(options) : options[i].disabled
       THEN [i \in 1..Len(options) |->
               IF options[i].player = inn.last_batter_out
               THEN [options[i] EXCEPT !.disabled = FALSE]
               ELSE options[i]]
       ELSE options

\* available_next_bowlers
AvailableNextBowlers(inn) ==
    LET options == [i \in 1..Len(inn.bowling_side) |->
                      [player |-> inn.bowling_side[i],
                       disabled |-> (inn.bowling_side[i] = inn.last_bowler)]]
    IN IF Len(options) <= 1 \/ \A i \in 1..Len(options) : options[i].disabled
       THEN [i \in 1..Len(options) |-> [options[i] EXCEPT !.disabled = FALSE]]
       ELSE options

\* apply_batter_choice
ApplyBatterChoice(inn, player) ==
    IF player \notin Range(inn.batting_side) THEN inn
    ELSE LET idx == IndexOf(inn.batting_side, player)
             is_first_ball == /\ inn.overs_completed = 0
                              /\ inn.balls_in_over = 0
                              /\ inn.wickets_fallen = 0
             a == IF is_first_ball
                  THEN [inn EXCEPT !.striker_idx = idx,
                                   !.non_striker_idx =
                                       IF inn.non_striker_idx = idx
                                       THEN (idx % Len(inn.batting_side)) + 1
                                       ELSE @]
                  ELSE [inn EXCEPT !.non_striker_idx = idx]
         IN [a EXCEPT !.needs_batter_choice = FALSE]

\* apply_bowler_choice
ApplyBowlerChoice(inn, player) ==
    IF player \notin Range(inn.bowling_side) THEN inn
    ELSE [inn EXCEPT !.current_bowler_idx = IndexOf(inn.bowling_side, player),
                     !.needs_bowler_choice = FALSE]

\* enabled or options (the candidates a pick may name)
Enabled(options) == SelectSeq(options, LAMBDA o : ~o.disabled)

ChoiceList(options) == IF Len(Enabled(options)) > 0 THEN Enabled(options) ELSE options

\* ------------------------------------------------------------------------
\* realtime/models.py, realtime/match/match_start.py: the room
\*
\* A room is modelled after its lobby has been configured.  Four lobbies
\* are considered: two humans (1v1), one human against one CPU (cpu), two
\* teams of a human and a CPU (team: team A is captained by its human,
\* team B by its CPU), and four humans playing a tournament (the players
\* of its first group match, h1 and h2, send messages; h3 and h4 never do).
\* humans lists the players in the order they joined, clients the players
\* whose messages are modelled.
\* ------------------------------------------------------------------------
NoTeams == [A |-> << >>, B |-> << >>]
NoCaptains == [A |-> NoPlayer, B |-> NoPlayer]

RoomConfigs ==
    { [lobby |-> "1v1", host |-> "h1", humans |-> <<"h1", "h2">>,
       mode |-> "1v1", cpu_enabled |-> FALSE, cpu_only |-> FALSE,
       cpu_names |-> << >>, teams |-> NoTeams, captains |-> NoCaptains,
       overs |-> 1, wickets |-> 1, wants_tournament |-> FALSE],
      [lobby |-> "cpu", host |-> "h1", humans |-> <<"h1">>,
       mode |-> "1v1", cpu_enabled |-> TRUE, cpu_only |-> TRUE,
       cpu_names |-> <<"c1">>, teams |-> NoTeams, captains |-> NoCaptains,
       overs |-> 1, wickets |-> 1, wants_tournament |-> FALSE],
      [lobby |-> "team", host |-> "h1", humans |-> <<"h1", "h2">>,
       mode |-> "team", cpu_enabled |-> TRUE, cpu_only |-> FALSE,
       cpu_names |-> <<"c1", "c2">>,
       teams |-> [A |-> <<"h1", "c1">>, B |-> <<"c2", "h2">>],
       captains |-> [A |-> "h1", B |-> "c2"],
       overs |-> 1, wickets |-> 2, wants_tournament |-> FALSE],
      [lobby |-> "tournament", host |-> "h1", humans |-> <<"h1", "h3", "h4", "h2">>,
       mode |-> "1v1", cpu_enabled |-> FALSE, cpu_only |-> FALSE,
       cpu_names |-> << >>, teams |-> NoTeams, captains |-> NoCaptains,
       overs |-> 1, wickets |-> 1, wants_tournament |-> TRUE] }

TimeoutKeys == {"bat", "bowl", "captain_bat", "captain_bowl"}
TeamKeys == <<"A", "B">>
AllPlayers == {"h1", "h2", "h3", "h4", "c1", "c2"}

\* realtime/match/actions/timeouts.py
BALL_PICK_TIMEOUT == 10
CAPTAIN_PICK_TIMEOUT == 5
MAX_AUTO_STRIKES == 3
\* realtime/match/toss.py
CPU_PICK_TIMEOUT == 30

\* asyncio.sleep arguments, in hundredths of a second
Seconds(n) == n * 100
CPU_MOVE_DELAY == 25
CPU_PICK_DELAY == 30
INNINGS_BREAK_DELAY == 200
FIRST_BALL_DELAY == 200
NEXT_MATCH_DELAY == 300
YIELD == 0

\* A value of room.pending_timeouts: no entry, a task id, or a task object
\* that has already finished (task.done() is true).
NoTask == 0
DoneTask == 0 - 1

\* game/tournament.py: Tournament (group phase)
NoTournament ==
    [players |-> << >>,
     phase |-> "none", group_matches |-> << >>, current_group_match_idx |-> 0,
     standings |-> << >>]

NewRoom(cfg) ==
    [host |-> cfg.host, humans |-> cfg.humans,
     clients |-> SelectSeq(cfg.humans, LAMBDA p : p \in {"h1", "h2"}),
     mode |-> cfg.mode,
     cpu_enabled |-> cfg.cpu_enabled, cpu_only |-> cfg.cpu_only,
     cpu_names |-> cfg.cpu_names, teams |-> cfg.teams,
     captains |-> cfg.captains, overs |-> cfg.overs, wickets |-> cfg.wickets,
     lobby |-> cfg.lobby, wants_tournament |-> cfg.wants_tournament,
     match |-> None,
     pending_moves |-> 1,
     toss_state |-> [caller |-> NoPlayer, phase |-> "none"],
     cpu_autoplay |-> FALSE,
     auto_move_strikes |-> [p \in AllPlayers |-> 0],
     pending_timeouts |-> [k \in TimeoutKeys |-> NoTask],
     tournament |-> NoTournament]

\* manager._is_cpu
IsCpu(room, username) == room.cpu_enabled /\ username \in Range(room.cpu_names)

\* _team_for_side: the first team key with a member on the side
TeamForSide(room, side) ==
    LET hits == {k \in 1..Len(TeamKeys) :
                    Range(room.teams[TeamKeys[k]]) \cap Range(side) # {}}
    IN IF side = << >> \/ hits = {} THEN "none"
       ELSE TeamKeys[CHOOSE k \in hits : \A j \in hits : k <= j]

CaptainForSide(room, side) ==
    IF TeamForSide(room, side) = "none" THEN NoPlayer
    ELSE room.captains[TeamForSide(room, side)]

\* manager._team_for_player and toss._human_captain_for_cpu
TeamForPlayer(room, username) == TeamForSide(room, <<username>>)

HumanCaptainForCpu(room, cpu_player) ==
    LET captain == CaptainForSide(room, <<cpu_player>>)
    IN IF captain # NoPlayer /\ ~IsCpu(room, captain) THEN captain ELSE NoPlayer

\* ------------------------------------------------------------------------
\* game/match.py
\* ------------------------------------------------------------------------
NoWinner == << >>
Tie == <<"TIE">>

NewMatch(mode, side_a, side_b, total_overs, total_wickets) ==
    [mode |-> mode, side_a |-> side_a, side_b |-> side_b,
     total_overs |-> total_overs, total_wickets |-> total_wickets,
     toss_caller |-> NoPlayer, toss_winner |-> NoPlayer, toss_choice |-> "none",
     batting_first |-> << >>, bowling_first |-> << >>,
     inns |-> << >>, slot |-> <<0, 0, 0, 0>>,
     is_super_over |-> FALSE, super_over_round |-> 0,
     current_innings |-> 0,
     winner |-> NoWinner, result_text |-> "", margin |-> 0, is_finished |-> FALSE,
     nrr_locked |-> FALSE,
     announced |-> 0]

\* Match.active_innings, as an index into the innings objects of the match
\* (0 stands for None)
ActiveInnings(match) ==
    IF match.current_innings \in 1..4 THEN match.slot[match.current_innings] ELSE 0

OtherSidePlayer(match, player) ==
    IF player \in Range(match.side_a) THEN match.side_b[1] ELSE match.side_a[1]

\* resolve_toss: won is the outcome of call == coin
ResolveToss(match, won) ==
    [match EXCEPT !.toss_winner = IF won THEN match.toss_caller
                                  ELSE OtherSidePlayer(match, match.toss_caller)]

ApplyTossChoice(match, choice) ==
    LET winner_side == IF match.toss_winner \in Range(match.side_a)
                       THEN match.side_a ELSE match.side_b
        loser_side == IF winner_side = match.side_a THEN match.side_b ELSE match.side_a
    IN [match EXCEPT !.toss_choice = choice,
                     !.batting_first = IF choice = "bat" THEN winner_side ELSE loser_side,
                     !.bowling_first = IF choice = "bat" THEN loser_side ELSE winner_side]

\* start_innings_N: a new Innings object is created and stored in slot N
StartInnings(match, n, inn) ==
    [match EXCEPT !.current_innings = n,
                  !.inns = Append(@, inn),
                  !.slot[n] = Len(match.inns) + 1]

StartInnings1(match) ==
    StartInnings(match, 1,
        NewInnings(match.batting_first, match.bowling_first, match.total_overs,
                   match.total_wickets, None, match.mode = "team"))

StartInnings2(match) ==
    StartInnings(match, 2,
        NewInnings(match.bowling_first, match.batting_first, match.total_overs,
                   match.total_wickets,
                   match.inns[match.slot[1]].total_runs + 1, match.mode = "team"))

StartInnings3(match) ==
    StartInnings([match EXCEPT !.is_super_over = TRUE, !.super_over_round = @ + 1], 3,
        NewInnings(match.bowling_first, match.batting_first, 1, 2, None,
                   match.mode = "team"))

StartInnings4(match) ==
    StartInnings(match, 4,
        NewInnings(match.batting_first, match.bowling_first, 1, 2,
                   match.inns[match.slot[3]].total_runs + 1, match.mode = "team"))

\* as DetermineResult, but a chase is won by the wickets that fell
DetermineResultWicketsFallen(match) ==
    LET first == IF match.is_super_over THEN match.inns[match.slot[3]].total_runs
                 ELSE match.inns[match.slot[1]].total_runs
        second == IF match.is_super_over
                  THEN (IF match.slot[4] # 0 THEN match.inns[match.slot[4]].total_runs ELSE 0)
                  ELSE match.inns[match.slot[2]].total_runs
        \* innings 1 and 4 are batted by batting_first, 2 and 3 by bowling_first
        s_first == IF match.is_super_over THEN second ELSE first
        s_second == IF match.is_super_over THEN first ELSE second
    IN [match EXCEPT
          !.winner = IF s_second > s_first THEN match.bowling_first
                     ELSE IF s_first > s_second THEN match.batting_first
                     ELSE Tie,
          !.result_text = IF s_second > s_first
                          THEN (IF match.is_super_over THEN "super over" ELSE "wickets")
                          ELSE IF s_first > s_second
                          THEN (IF match.is_super_over THEN "super over" ELSE "runs")
                          ELSE "tied",
          !.margin = IF match.is_super_over \/ s_first = s_second THEN @
                     ELSE IF s_second > s_first
                     THEN match.inns[match.slot[2]].wickets_fallen
                     ELSE s_first - s_second,
          !.is_finished = TRUE]

\* determine_result.  winner is the side whose names are joined into the
\* label; result_text is the kind of sentence that is formatted and margin
\* the number formatted into it (wickets in hand, or runs ahead).
DetermineResult(match) ==
    LET first == IF match.is_super_over THEN match.inns[match.slot[3]].total_runs
                 ELSE match.inns[match.slot[1]].total_runs
        second == IF match.is_super_over
                  THEN (IF match.slot[4] # 0 THEN match.inns[match.slot[4]].total_runs ELSE 0)
                  ELSE match.inns[match.slot[2]].total_runs
        \* innings 1 and 4 are batted by batting_first, 2 and 3 by bowling_first
        s_first == IF match.is_super_over THEN second ELSE first
        s_second == IF match.is_super_over THEN first ELSE second
    IN [match EXCEPT
          !.winner = IF s_second > s_first THEN match.bowling_first
                     ELSE IF s_first > s_second THEN match.batting_first
                     ELSE Tie,
          !.result_text = IF s_second > s_first
                          THEN (IF match.is_super_over THEN "super over" ELSE "wickets")
                          ELSE IF s_first > s_second
                          THEN (IF match.is_super_over THEN "super over" ELSE "runs")
                          ELSE "tied",
          !.margin = IF match.is_super_over \/ s_first = s_second THEN @
                     ELSE IF s_second > s_first
                     THEN match.total_wickets - match.inns[match.slot[2]].wickets_fallen
                     ELSE s_first - s_second,
          !.is_finished = TRUE]

\* ------------------------------------------------------------------------
\* The asyncio event loop, as far as the room uses it
\*
\* A world w is a record of the room, the Match and pending-move objects a
\* handler may still hold a reference to, and the tasks of the event loop.
\* One task at a time runs (w.cur); it runs until it awaits asyncio.sleep or
\* ends.  Each task has a stack of frames, one per coroutine it is inside,
\* whose pc names the statement the coroutine continues with.  Sends to
\* websockets complete without suspending the sender.
\* ------------------------------------------------------------------------
HandlerIds == {1, 2}
TimerIds == 3..10
TaskIds == HandlerIds \cup TimerIds
DictIds == 1..4
MatchIds == 1..3

Frame(pc) ==
    [pc |-> pc, m |-> 0, i |-> 0, mm |-> 0, user |-> NoPlayer, arg |-> NoPlayer,
     role |-> "", pend |-> 0, flag |-> FALSE, mv |-> 0]

FreeTask ==
    [st |-> "free", stack |-> << >>, must_cancel |-> FALSE, dur |-> 0,
     after |-> {}, ret |-> FALSE]
IdleTask == [FreeTask EXCEPT !.st = "idle"]

\* An entry of the pending-move dictionary.  Besides the move it records who
\* placed it (src is "human", "auto" for a countdown or "cpu") and the
\* delivery it was placed for: match, innings object and balls bowled.
NoDelivery == <<0, 0, 0>>
NoMove == [present |-> FALSE, mv |-> 0, src |-> "", user |-> NoPlayer,
           del |-> NoDelivery]
EmptyDict == [bat |-> NoMove, bowl |-> NoMove]

\* What an observer of the room has noted so far.  run describes the action
\* in progress: the timeout that injected a move or a pick (kind is its
\* role key), the strikes it recorded, the balls it resolved, who had placed
\* the moves of the ball it resolved and which delivery that was; at is the
\* match and innings a captain's timeout picked for.
NoRun ==
    [kind |-> "", user |-> NoPlayer, move |-> 0, pick |-> NoPlayer, struck |-> 0,
     resolved |-> 0, srcs |-> <<"", "">>, del |-> NoDelivery, at |-> <<0, 0>>]
NoForfeit == [offender |-> NoPlayer, winner |-> << >>, row |-> 0]

\* overflow: the model ran out of task, match or dictionary identifiers;
\* balls: balls resolved; started: matches created; stale: a ball was
\* resolved with a move placed for another delivery; misfire: a countdown
\* injected a move for a delivery it was not armed for; half: a ball was
\* resolved with a slot empty; ended: how the last match ended; forfeit:
\* the last forfeiture; miss: each player's ball-pick timeouts in a row
\* since their last accepted move; late: a ball countdown was armed while
\* the pending map still held a move of a ball already resolved.
NewObs ==
    [overflow |-> FALSE, balls |-> 0, started |-> 0, stale |-> FALSE,
     misfire |-> FALSE, half |-> FALSE, late |-> FALSE, ended |-> "",
     forfeit |-> NoForfeit,
     miss |-> [p \in AllPlayers |-> 0], run |-> NoRun]

NewWorld(cfg) ==
    [room |-> NewRoom(cfg),
     matches |-> << >>,
     dicts |-> (1 :> EmptyDict),
     tasks |-> [t \in TaskIds |-> IF t \in HandlerIds /\ t <= Len(NewRoom(cfg).clients)
                                   THEN IdleTask ELSE FreeTask],
     cur |-> 0,
     obs |-> NewObs]

Min(S) == CHOOSE x \in S : \A y \in S : x <= y

Top(w, t) == w.tasks[t].stack[Len(w.tasks[t].stack)]
SetTop(w, t, f) == [w EXCEPT !.tasks[t].stack[Len(w.tasks[t].stack)] = f]
Goto(w, t, pc) == SetTop(w, t, [Top(w, t) EXCEPT !.pc = pc])

\* await coro(...): the caller continues at cont when the callee returns
Call(w, t, cont, f) ==
    [Goto(w, t, cont) EXCEPT !.tasks[t].stack = Append(@, f)]

\* the last await of a coroutine: its locals are not used again
CallLast(w, t, cont, f) ==
    [SetTop(w, t, Frame(cont)) EXCEPT !.tasks[t].stack = Append(@, f)]

\* a task that ends stays in room.pending_timeouts as a finished task object
Finish(w, t) ==
    [w EXCEPT !.tasks[t] = IF t \in HandlerIds THEN IdleTask ELSE FreeTask,
              !.cur = 0,
              !.room.pending_timeouts =
                  [k \in TimeoutKeys |->
                      IF w.room.pending_timeouts[k] = t THEN DoneTask
                      ELSE w.room.pending_timeouts[k]]]

Return(w, t, ret) ==
    LET s == w.tasks[t].stack
    IN IF Len(s) > 1
       THEN [w EXCEPT !.tasks[t].stack = SubSeq(s, 1, Len(s) - 1),
                      !.tasks[t].ret = ret]
       ELSE Finish(w, t)

\* A sleep that starts now ends after every sleep that is already running
\* and is no longer than it.
Sleepers(w, dur) == {u \in TaskIds : w.tasks[u].st = "sleep" /\ w.tasks[u].dur <= dur}

NoLongerSleeping(w, t) ==
    [w EXCEPT !.tasks = [u \in TaskIds |->
                            [w.tasks[u] EXCEPT !.after = @ \ {t}]]]

\* the only try/finally of the coroutines is in auto_play_cpu_match: the
\* frames of its try block
AutoPlayLabels == {"ap_loop", "ap_resolve", "ap_after", "ap_exit"}
HasFinally(w, t) ==
    \E k \in 1..Len(w.tasks[t].stack) : w.tasks[t].stack[k].pc \in AutoPlayLabels

\* CancelledError is thrown into task t: without a finally block on its
\* stack the task just ends, otherwise it unwinds at its next turn
Throw(w, t) ==
    IF HasFinally(w, t)
    THEN [w EXCEPT !.tasks[t].st = "dying", !.tasks[t].dur = 0, !.tasks[t].after = {}]
    ELSE [w EXCEPT !.tasks[t] = IF t \in HandlerIds THEN IdleTask ELSE FreeTask,
                   !.room.pending_timeouts =
                       [k \in TimeoutKeys |->
                           IF w.room.pending_timeouts[k] = t THEN DoneTask
                           ELSE w.room.pending_timeouts[k]]]

\* await asyncio.sleep(dur): a task whose cancellation was requested while
\* it ran receives CancelledError here
SleepAt(w, t, pc, dur) ==
    LET w1 == Goto(w, t, pc)
    IN IF w1.tasks[t].must_cancel
       THEN [Throw(w1, t) EXCEPT !.cur = 0]
       ELSE [w1 EXCEPT !.tasks[t].st = "sleep", !.tasks[t].dur = dur,
                       !.tasks[t].after = Sleepers(w, dur), !.cur = 0]

\* Task.cancel()
CancelTask(w, t) ==
    IF t = w.cur THEN [w EXCEPT !.tasks[t].must_cancel = TRUE]
    ELSE IF w.tasks[t].st = "sleep"
    THEN Throw(NoLongerSleeping(w, t), t)
    ELSE w

\* timeouts._cancel_timeout
CancelTimeout(w, key) ==
    LET task == w.room.pending_timeouts[key]
        w1 == [w EXCEPT !.room.pending_timeouts[key] = NoTask]
    IN IF task # NoTask /\ task # DoneTask THEN CancelTask(w1, task) ELSE w1

\* for key in list(room.pending_timeouts.keys()): _cancel_timeout(room, key)
CancelAllTimeouts(w) ==
    CancelTimeout(CancelTimeout(CancelTimeout(CancelTimeout(w,
        "bat"), "bowl"), "captain_bat"), "captain_bowl")

\* asyncio.create_task(coro): the new task runs up to its first sleep
FreeTimers(w) == {t \in TimerIds : w.tasks[t].st = "free"}

CreateTask(w, t, f, dur) ==
    [w EXCEPT !.tasks[t] = [st |-> "sleep", stack |-> <<f>>, must_cancel |-> FALSE,
                            dur |-> dur, after |-> Sleepers(w, dur), ret |-> FALSE]]

\* timeouts._start_timeout
StartTimeout(w, key, f, dur) ==
    LET w1 == CancelTimeout(w, key)
    IN IF FreeTimers(w1) = {} THEN [w1 EXCEPT !.obs.overflow = TRUE]
       ELSE LET t == Min(FreeTimers(w1))
            IN [CreateTask(w1, t, f, dur) EXCEPT !.room.pending_timeouts[key] = t]

\* asyncio.create_task(coro) whose task object is not stored anywhere
SpawnTask(w, f, dur) ==
    IF FreeTimers(w) = {} THEN [w EXCEPT !.obs.overflow = TRUE]
    ELSE CreateTask(w, Min(FreeTimers(w)), f, dur)

\* the pending-move dictionary room.pending_moves currently refers to
Pending(w) == w.dicts[w.room.pending_moves]
Has(w, d, role) == w.dicts[d][role].present
Put(w, d, role, mv, src, user, del) ==
    [w EXCEPT !.dicts[d][role] =
        [present |-> TRUE, mv |-> mv, src |-> src, user |-> user, del |-> del]]

AllFrames(w) ==
    UNION {Range(w.tasks[t].stack) : t \in TaskIds}
HeldDicts(w) == {f.pend : f \in AllFrames(w)} \ {0}
HeldMatches(w) ==
    ({f.m : f \in AllFrames(w)} \cup {f.mm : f \in AllFrames(w)}) \ {0}

\* room.pending_moves = {}: a new dictionary; the old one lives on for the
\* coroutines that hold it
NewPending(w) ==
    LET free == DictIds \ HeldDicts(w)
    IN IF free = {} THEN [w EXCEPT !.obs.overflow = TRUE]
       ELSE LET d == Min(free)
            IN [w EXCEPT !.room.pending_moves = d,
                         !.dicts = [x \in HeldDicts(w) \cup {d} |->
                                       IF x = d THEN EmptyDict ELSE w.dicts[x]]]

\* room.match = Match(...)
NewRoomMatch(w, match) ==
    LET free == MatchIds \ HeldMatches(w)
    IN IF free = {} THEN [w EXCEPT !.obs.overflow = TRUE]
       ELSE LET m == Min(free)
            IN [w EXCEPT !.room.match = m,
                         !.matches = [x \in (DOMAIN w.matches \ {m}) \cup {m} |->
                                         IF x = m THEN match ELSE w.matches[x]]]

\* objects no coroutine and no room field refers to any longer are dropped
Collect(w) ==
    LET ms == HeldMatches(w) \cup ({w.room.match} \ {None})
        ds == HeldDicts(w) \cup {w.room.pending_moves}
    IN [w EXCEPT !.matches = [x \in ms |-> w.matches[x]],
                 !.dicts = [x \in ds |-> w.dicts[x]]]

Inn(w, m, i) == w.matches[m].inns[i]
SetInn(w, m, i, inn) == [w EXCEPT !.matches[m].inns[i] = inn]
RoomMatch(w) == w.matches[w.room.match]
Delivery(w, m, i) == <<m, i, Len(Inn(w, m, i).ball_log)>>

\* manager._send_match_state: records the innings the clients were told of
SendMatchState(w) ==
    IF w.room.match = None THEN w
    ELSE IF ActiveInnings(w.matches[w.room.match]) = 0 THEN w
    ELSE [w EXCEPT !.matches[w.room.match].announced = RoomMatch(w).current_innings]

\* ------------------------------------------------------------------------
\* game/tournament.py and realtime/tournament.py (group phase)
\* ------------------------------------------------------------------------
\* _build_round_robin_rounds and _flatten_rounds for four players
GroupSchedule(p) ==
    << <<p[1], p[4]>>, <<p[2], p[3]>>, <<p[1], p[3]>>,
       <<p[4], p[2]>>, <<p[1], p[2]>>, <<p[3], p[4]>> >>

\* StandingsEntry.__init__.  Overs are floats in the program; here they are
\* counted in sixths of an over, so that 8 overs and 3 balls, 8.5, is 51.
StandingsEntry ==
    [played |-> 0, won |-> 0, lost |-> 0, tied |-> 0, points |-> 0,
     runs_scored |-> 0, overs_faced |-> 0, runs_conceded |-> 0, overs_bowled |-> 0]

\* StandingsEntry.nrr, in runs per over, as <<numerator, denominator>> with
\* a positive denominator
Nrr(e) ==
    IF e.overs_faced > 0 /\ e.overs_bowled > 0
    THEN <<6 * (e.runs_scored * e.overs_bowled - e.runs_conceded * e.overs_faced),
           e.overs_faced * e.overs_bowled>>
    ELSE IF e.overs_faced > 0 THEN <<6 * e.runs_scored, e.overs_faced>>
    ELSE IF e.overs_bowled > 0 THEN <<0 - 6 * e.runs_conceded, e.overs_bowled>>
    ELSE <<0, 1>>

NewTournament(players) ==
    [players |-> players,
     phase |-> "group", group_matches |-> GroupSchedule(players),
     current_group_match_idx |-> 0,
     standings |-> [p \in Range(players) |-> StandingsEntry]]

\* the nrr_data dict; NoPlayer for a missing batting_first_player
NrrData(r1, o1, r2, o2, first) ==
    [runs_scored_1 |-> r1, overs_faced_1 |-> o1,
     runs_scored_2 |-> r2, overs_faced_2 |-> o2, batting_first_player |-> first]

\* as OfficialOversFaced, without the convention for a side that is all out
OfficialOversFacedActual(inn) ==
    inn.overs_completed * 6 + inn.balls_in_over

\* get_nrr_data, _official_overs_faced, in sixths of an over
OfficialOversFaced(inn) ==
    LET balls_faced == inn.overs_completed * 6 + inn.balls_in_over
        full_quota == 6 * inn.total_overs
    IN IF inn.wickets_fallen >= inn.total_wickets /\ balls_faced < full_quota
       THEN full_quota
       ELSE balls_faced

\* Match.get_nrr_data
GetNrrData(match) ==
    NrrData(IF match.slot[1] # 0 THEN match.inns[match.slot[1]].total_runs ELSE 0,
            IF match.slot[1] # 0 THEN OfficialOversFaced(match.inns[match.slot[1]]) ELSE 0,
            IF match.slot[2] # 0 THEN match.inns[match.slot[2]].total_runs ELSE 0,
            IF match.slot[2] # 0 THEN OfficialOversFaced(match.inns[match.slot[2]]) ELSE 0,
            IF match.batting_first # << >> THEN match.batting_first[1] ELSE NoPlayer)

\* record_group_result, lines 87-105: played, won, lost, tied and points
\* of player p
GroupPoints(e, p, player_a, player_b, winner) ==
    LET other == IF p = player_a THEN player_b ELSE player_a
    IN IF winner = p /\ (p = player_a \/ winner # player_a)
       THEN [e EXCEPT !.played = @ + 1, !.won = @ + 1, !.points = @ + 2]
       ELSE IF winner = other
       THEN [e EXCEPT !.played = @ + 1, !.lost = @ + 1]
       ELSE [e EXCEPT !.played = @ + 1, !.tied = @ + 1, !.points = @ + 1]

\* record_group_result, lines 107-132: the figures of the innings p batted
\* in are its runs scored and overs faced, those of the other innings its
\* runs conceded and overs bowled
GroupRates(e, batted_first, nrr_data) ==
    IF batted_first
    THEN [e EXCEPT !.runs_scored = @ + nrr_data.runs_scored_1,
                   !.overs_faced = @ + nrr_data.overs_faced_1,
                   !.runs_conceded = @ + nrr_data.runs_scored_2,
                   !.overs_bowled = @ + nrr_data.overs_faced_2]
    ELSE [e EXCEPT !.runs_scored = @ + nrr_data.runs_scored_2,
                   !.overs_faced = @ + nrr_data.overs_faced_2,
                   !.runs_conceded = @ + nrr_data.runs_scored_1,
                   !.overs_bowled = @ + nrr_data.overs_faced_1]

\* Tournament.record_group_result: the standings of the two players are
\* updated and the schedule advances; after the last group match the
\* playoffs are set up
RecordGroupResult(t, player_a, player_b, winner, nrr_data) ==
    LET a_first == nrr_data.batting_first_player = player_a
    IN [t EXCEPT
          !.standings[player_a] =
              GroupRates(GroupPoints(@, player_a, player_a, player_b, winner),
                         a_first, nrr_data),
          !.standings[player_b] =
              GroupRates(GroupPoints(@, player_b, player_a, player_b, winner),
                         ~a_first, nrr_data),
          !.current_group_match_idx = @ + 1,
          !.phase = IF t.current_group_match_idx + 1 >= Len(t.group_matches)
                    THEN "qualifier_1" ELSE t.phase]

\* e sorts before f under the key (points, nrr) in reverse order
SortsBefore(e, f) ==
    \/ e.points > f.points
    \/ e.points = f.points /\ Nrr(e)[1] * Nrr(f)[2] > Nrr(f)[1] * Nrr(e)[2]

\* get_sorted_standings: the players by points, then net run rate, both
\* descending; sorted() is stable, so equal keys keep the order of
\* self.standings, which is the order of self.players
GetSortedStandings(t) ==
    LET n == Len(t.players)
        e(i) == t.standings[t.players[i]]
        ahead(i) == {j \in 1..n : SortsBefore(e(j), e(i))
                                  \/ (~SortsBefore(e(i), e(j)) /\ j < i)}
    IN [k \in 1..n |-> t.players[CHOOSE i \in 1..n : Cardinality(ahead(i)) = k - 1]]

\* the label ", ".join(side) of a side of one player is the player's name
WinnerLabel(side) == IF Len(side) = 1 THEN side[1] ELSE NoPlayer

\* apply_tournament_result for the match of the room
ApplyTournamentResult(w) ==
    LET match == RoomMatch(w)
        winner == IF match.winner # Tie THEN WinnerLabel(match.winner)
                  ELSE match.side_a[1]
    IN IF w.room.tournament.phase = "group"
       THEN [w EXCEPT !.room.tournament =
                RecordGroupResult(@, match.side_a[1], match.side_b[1], winner,
                                  GetNrrData(match))]
       ELSE w

\* apply_tournament_cancellation for the match of the room
ApplyTournamentCancellation(w) ==
    LET match == RoomMatch(w)
    IN IF w.room.tournament.phase = "group"
       THEN [w EXCEPT !.room.tournament =
                RecordGroupResult(@, match.side_a[1], match.side_b[1], NoPlayer,
                                  NrrData(0, 0, 0, 0, NoPlayer))]
       ELSE w

\* ------------------------------------------------------------------------
\* realtime/match/actions/captain.py: strikes
\* ------------------------------------------------------------------------
\* _handle_auto_strike, lines 100-107
AutoStrike(w, username) ==
    [w EXCEPT !.room.auto_move_strikes[username] = @ + 1,
              !.obs.run.struck = @ + 1]

\* as StrikeForfeits, without the return for the captains' roles
StrikeForfeitsAnyRole(w, username, role) ==
    /\ w.room.auto_move_strikes[username] >= MAX_AUTO_STRIKES
    /\ w.room.match # None
    /\ ActiveInnings(RoomMatch(w)) # 0

\* _handle_auto_strike, lines 108-120: does this strike forfeit the match?
StrikeForfeits(w, username, role) ==
    /\ w.room.auto_move_strikes[username] >= MAX_AUTO_STRIKES
    /\ w.room.match # None
    /\ ActiveInnings(RoomMatch(w)) # 0
    /\ role \in {"bat", "bowl"}

NoStrikes == [p \in AllPlayers |-> 0]

\* ------------------------------------------------------------------------
\* realtime/match/actions/ball.py
\* ------------------------------------------------------------------------
CountdownFrame(role, username, del) ==
    [Frame("cd_fire") EXCEPT !.role = role, !.user = username,
                             !.m = del[1], !.i = del[2], !.mv = del[3]]

ResolveFrame(m, i) == [Frame("rp_entry") EXCEPT !.m = m, !.i = i]
CpuMoveFrame(m, i) == [Frame("mc_entry") EXCEPT !.m = m, !.i = i]
CpuPicksFrame(m, i) == [Frame("hc_entry") EXCEPT !.m = m, !.i = i]
AutoPlayFrame == Frame("ap_entry")
ForfeitFrame(offender) == [Frame("ff_entry") EXCEPT !.user = offender]
StartPickFrame(role, m, i) == [Frame("sp_entry") EXCEPT !.role = role, !.m = m, !.i = i]
TriggerPicksFrame(m, i) == [Frame("tp_entry") EXCEPT !.m = m, !.i = i]
NextMatchFrame == Frame("sn_entry")
TossFrame == Frame("it_entry")

\* the observer notes a countdown armed while room.pending_moves holds a
\* move placed for a ball of the innings that is in its log already
ResolvedMoves(w, m, i) ==
    \E role \in {"bat", "bowl"} :
        /\ Pending(w)[role].present
        /\ Pending(w)[role].del[1] = m /\ Pending(w)[role].del[2] = i
        /\ Pending(w)[role].del[3] < Len(Inn(w, m, i).ball_log)

Armed(w, r, m, i) ==
    IF r.room.pending_timeouts # w.room.pending_timeouts /\ ResolvedMoves(w, m, i)
    THEN [r EXCEPT !.obs.late = TRUE] ELSE r

\* start_ball_countdowns without its _is_cpu tests
ArmBallCountdownsForAnyone(w, m, i) ==
    LET inn == Inn(w, m, i)
        w1 == IF ~Has(w, w.room.pending_moves, "bat")
              THEN StartTimeout(w, "bat",
                       CountdownFrame("bat", Striker(inn), Delivery(w, m, i)),
                       Seconds(BALL_PICK_TIMEOUT))
              ELSE w
    IN IF inn.needs_batter_choice \/ inn.needs_bowler_choice THEN w
       ELSE IF ~Has(w, w.room.pending_moves, "bowl")
       THEN StartTimeout(w1, "bowl",
                CountdownFrame("bowl", CurrentBowler(inn), Delivery(w, m, i)),
                Seconds(BALL_PICK_TIMEOUT))
       ELSE w1

\* start_ball_countdowns without its test of the pending captain choices
ArmBallCountdownsWhilePicking(w, m, i) ==
    LET inn == Inn(w, m, i)
        w1 == IF ~IsCpu(w.room, Striker(inn)) /\ ~Has(w, w.room.pending_moves, "bat")
              THEN StartTimeout(w, "bat",
                       CountdownFrame("bat", Striker(inn), Delivery(w, m, i)),
                       Seconds(BALL_PICK_TIMEOUT))
              ELSE w
    IN IF ~IsCpu(w.room, CurrentBowler(inn)) /\ ~Has(w, w.room.pending_moves, "bowl")
       THEN StartTimeout(w1, "bowl",
                CountdownFrame("bowl", CurrentBowler(inn), Delivery(w, m, i)),
                Seconds(BALL_PICK_TIMEOUT))
       ELSE w1

\* start_ball_countdowns, lines 52-73
ArmBallCountdowns(w, m, i) ==
    LET inn == Inn(w, m, i)
        w1 == IF ~IsCpu(w.room, Striker(inn)) /\ ~Has(w, w.room.pending_moves, "bat")
              THEN StartTimeout(w, "bat",
                       CountdownFrame("bat", Striker(inn), Delivery(w, m, i)),
                       Seconds(BALL_PICK_TIMEOUT))
              ELSE w
    IN IF inn.needs_batter_choice \/ inn.needs_bowler_choice THEN w
       ELSE IF ~IsCpu(w.room, CurrentBowler(inn)) /\ ~Has(w, w.room.pending_moves, "bowl")
       THEN StartTimeout(w1, "bowl",
                CountdownFrame("bowl", CurrentBowler(inn), Delivery(w, m, i)),
                Seconds(BALL_PICK_TIMEOUT))
       ELSE w1

\* start_ball_countdowns
StartBallCountdowns(w, m, i) == Armed(w, ArmBallCountdowns(w, m, i), m, i)

\* the observer notes the move a countdown injects
Injected(w, f, move, del) ==
    [w EXCEPT !.obs.run.kind = f.role, !.obs.run.user = f.user,
              !.obs.run.move = move,
              !.obs.misfire = @ \/ del # <<f.m, f.i, f.mv>>,
              !.obs.miss[f.user] = IF @ < MAX_AUTO_STRIKES THEN @ + 1 ELSE @]

\* _bat_countdown and _bowl_countdown; move is the outcome of random.randint
Countdown(w, t, move) ==
    LET f == Top(w, t)
        d == w.room.pending_moves
        match == RoomMatch(w)
        a == ActiveInnings(match)
        inn == match.inns[a]
        w1 == AutoStrike(Put(Injected(w, f, move, Delivery(w, w.room.match, a)),
                             d, f.role, move, "auto", f.user,
                             Delivery(w, w.room.match, a)), f.user)
        w2 == SetTop(w1, t, [Frame("cd_resolve") EXCEPT !.mm = w.room.match])
    IN CASE f.pc = "cd_fire" ->
              IF w.room.match = None \/ Has(w, d, f.role) THEN Return(w, t, FALSE)
              ELSE IF a = 0 THEN Return(w, t, FALSE)
              ELSE IF f.role = "bat" /\ Striker(inn) # f.user THEN Return(w, t, FALSE)
              ELSE IF f.role = "bowl" /\ CurrentBowler(inn) # f.user THEN Return(w, t, FALSE)
              ELSE IF StrikeForfeits(w1, f.user, f.role)
              THEN Call(w2, t, "cd_resolve", ForfeitFrame(f.user))
              ELSE w2
         [] f.pc = "cd_resolve" ->
              IF ActiveInnings(w.matches[f.mm]) # 0
              THEN CallLast(w, t, "cd_end",
                            ResolveFrame(f.mm, ActiveInnings(w.matches[f.mm])))
              ELSE Return(w, t, FALSE)
         [] OTHER -> Return(w, t, FALSE)

\* resolve_pending_ball, lines 101-121 and the three super-over branches:
\* the next innings is started and the break is slept through
InningsBreak(w, t, n) ==
    LET m == w.room.match
        match == w.matches[m]
        next == CASE n = 2 -> StartInnings2(match)
                  [] n = 3 -> StartInnings3(match)
                  [] OTHER -> StartInnings4(match)
        w1 == [w EXCEPT !.room.auto_move_strikes = NoStrikes, !.matches[m] = next]
    IN SleepAt(SetTop(w1, t, [Frame("rp_break") EXCEPT !.mm = m]), t, "rp_break",
               INNINGS_BREAK_DELAY)

\* resolve_pending_ball, lines 221-230: the room is left without a match
MatchTornDown(w, t) ==
    IF w.room.tournament.phase # "none"
    THEN SleepAt(SetTop(w, t, Frame("rp_next")), t, "rp_next", NEXT_MATCH_DELAY)
    ELSE Return(w, t, TRUE)

\* resolve_pending_ball, lines 212-217
TournamentResult(w) ==
    IF w.room.tournament.phase # "none" THEN ApplyTournamentResult(w) ELSE w

\* resolve_pending_ball, lines 203-230
MatchOver(w, t) ==
    MatchTornDown(
        NewPending([TournamentResult(CancelAllTimeouts(
                        [w EXCEPT !.matches[w.room.match] = DetermineResult(@)]))
                    EXCEPT !.room.match = None, !.obs.ended = "completed"]), t)

\* resolve_pending_ball, lines 100-249: what follows the ball that was just
\* resolved with outcome out
BallResolved(w, t, f, out) ==
    LET match == RoomMatch(w)
        tie == match.inns[match.slot[1]].total_runs = out.inn.total_runs
        playoff == w.room.tournament.phase \notin {"none", "group"}
        tie_so == match.slot[3] # 0
                  /\ match.inns[match.slot[3]].total_runs = out.inn.total_runs
    IN IF out.result.innings_complete
       THEN IF match.current_innings = 1 THEN InningsBreak(w, t, 2)
            ELSE IF match.current_innings = 2 /\ tie /\ playoff
            THEN InningsBreak(w, t, 3)
            ELSE IF match.current_innings = 3 THEN InningsBreak(w, t, 4)
            ELSE IF match.current_innings = 4 /\ playoff /\ tie_so
            THEN InningsBreak(w, t, 3)
            ELSE MatchOver(w, t)
       ELSE IF out.result.needs_batter_choice
       THEN Call(SetTop(w, t, [f EXCEPT !.flag = out.result.needs_bowler_choice]),
                 t, "rp_pick2", StartPickFrame("captain_bat", f.m, f.i))
       ELSE IF out.result.needs_bowler_choice
       THEN CallLast(w, t, "rp_true", StartPickFrame("captain_bowl", f.m, f.i))
       ELSE CallLast(StartBallCountdowns(SendMatchState(w), f.m, f.i),
                     t, "rp_auto", CpuMoveFrame(f.m, f.i))

\* as ResolveNow, but room.pending_moves keeps the moves of the resolved ball
ResolveNowKeepsMoves(w, t, f, out) ==
    LET d == w.room.pending_moves
    IN BallResolved(
           [SetInn(CancelTimeout(CancelTimeout(w, "bat"), "bowl"), f.m, f.i, out.inn)
            EXCEPT !.obs.balls = IF out.result.error THEN @ ELSE @ + 1,
                   !.obs.run.resolved = @ + 1,
                   !.obs.run.srcs = <<w.dicts[d].bat.src, w.dicts[d].bowl.src>>,
                   !.obs.run.del = Delivery(w, f.m, f.i)],
           t, f, out)

\* resolve_pending_ball, lines 87-97: the countdowns are cancelled, the ball
\* is resolved and room.pending_moves is a new dictionary.  obs.stale
\* records a resolution that used a move placed for another delivery.
ResolveNow(w, t, f, out) ==
    LET d == w.room.pending_moves
        fresh == w.dicts[d].bat.del = Delivery(w, f.m, f.i)
                 /\ w.dicts[d].bowl.del = Delivery(w, f.m, f.i)
                 /\ ~out.result.error
    IN BallResolved(
           NewPending([SetInn(CancelTimeout(CancelTimeout(w, "bat"), "bowl"),
                              f.m, f.i, out.inn)
                       EXCEPT !.obs.balls = IF out.result.error THEN @ ELSE @ + 1,
                              !.obs.stale = @ \/ ~fresh,
                              !.obs.half = @ \/ ~(Has(w, d, "bat") /\ Has(w, d, "bowl")),
                              !.obs.run.resolved = @ + 1,
                              !.obs.run.srcs = <<w.dicts[d].bat.src, w.dicts[d].bowl.src>>,
                              !.obs.run.del = Delivery(w, f.m, f.i)]),
           t, f, out)

\* resolve_pending_ball after the innings break, lines 113-121
AfterBreak(w, t, f, a) ==
    IF a # 0
    THEN Call(SetTop(SendMatchState(w), t, [f EXCEPT !.m = f.mm, !.i = a]),
              t, "rp_break2", TriggerPicksFrame(f.mm, a))
    ELSE CallLast(SendMatchState(w), t, "rp_auto", CpuMoveFrame(f.mm, a))

ResolvePendingBall(w, t) ==
    LET f == Top(w, t)
        d == w.room.pending_moves
    IN CASE f.pc = "rp_entry" ->
              IF w.room.match = None THEN Return(w, t, FALSE)
              ELSE IF ~Has(w, d, "bat") \/ ~Has(w, d, "bowl") THEN Return(w, t, FALSE)
              ELSE ResolveNow(w, t, f, ResolveBall(Inn(w, f.m, f.i),
                                                  w.dicts[d].bat.mv, w.dicts[d].bowl.mv))
         [] f.pc = "rp_pick2" ->
              IF f.flag
              THEN CallLast(w, t, "rp_true", StartPickFrame("captain_bowl", f.m, f.i))
              ELSE Return(w, t, TRUE)
         [] f.pc = "rp_break" -> AfterBreak(w, t, f, ActiveInnings(w.matches[f.mm]))
         [] f.pc = "rp_break2" ->
              CallLast(StartBallCountdowns(w, f.m, f.i), t, "rp_auto",
                       CpuMoveFrame(f.m, f.i))
         [] f.pc = "rp_auto" -> CallLast(w, t, "rp_true", AutoPlayFrame)
         [] f.pc = "rp_next" -> CallLast(w, t, "rp_true", NextMatchFrame)
         [] OTHER -> Return(w, t, TRUE)

\* game_move, lines 290-292: the move is stored and the countdown of its
\* role is cancelled
AcceptMoveKeepsCountdown(w, f, role, del) ==
    [Put(w, w.room.pending_moves, role, f.mv, "human", f.user, del)
     EXCEPT !.obs.miss[f.user] = 0]

AcceptMove(w, f, role, del) ==
    CancelTimeout([Put(w, w.room.pending_moves, role, f.mv, "human", f.user, del)
                   EXCEPT !.obs.miss[f.user] = 0], role)

\* game_move; the frame holds the sender (user) and the move (mv)
GameMoveRole(w, f) ==
    LET match == RoomMatch(w)
        inn == match.inns[ActiveInnings(match)]
        d == w.room.pending_moves
        is_batting == f.user \in Range(inn.batting_side)
        is_bowling == f.user \in Range(inn.bowling_side)
    IN IF is_batting /\ f.user = Striker(inn) /\ ~Has(w, d, "bat") THEN "bat"
       ELSE IF is_bowling /\ f.user = CurrentBowler(inn) /\ ~Has(w, d, "bowl") THEN "bowl"
       ELSE IF match.mode = "1v1" /\ is_batting /\ ~Has(w, d, "bat") THEN "bat"
       ELSE IF match.mode = "1v1" /\ is_bowling /\ ~Has(w, d, "bowl") THEN "bowl"
       ELSE ""

GameMove(w, t) ==
    LET f == Top(w, t)
        m == w.room.match
        a == ActiveInnings(w.matches[m])
        inn == Inn(w, m, a)
        role == GameMoveRole(w, f)
        w1 == AcceptMove(w, f, role, Delivery(w, m, a))
    IN CASE f.pc = "gm_entry" ->
              IF m = None THEN Return(w, t, FALSE)
              ELSE IF w.matches[m].is_finished \/ a = 0 THEN Return(w, t, FALSE)
              ELSE IF inn.needs_batter_choice \/ inn.needs_bowler_choice
              THEN Return(w, t, FALSE)
              ELSE IF f.mv \notin Moves THEN Return(w, t, FALSE)
              ELSE IF role # ""
              THEN Call(SetTop(SendMatchState(w1), t, [f EXCEPT !.m = m, !.i = a]),
                        t, "gm_after_cpu", CpuMoveFrame(m, a))
              ELSE CallLast(w, t, "gm_end", ResolveFrame(m, a))
         [] f.pc = "gm_after_cpu" -> Call(w, t, "gm_after_res", ResolveFrame(f.m, f.i))
         [] f.pc = "gm_after_res" ->
              IF w.tasks[t].ret THEN Return(w, t, FALSE)
              ELSE CallLast(w, t, "gm_end", ResolveFrame(f.m, f.i))
         [] OTHER -> Return(w, t, FALSE)

\* cancel_match
CancelMatch(w, t) ==
    LET f == Top(w, t)
        m == w.room.match
        w1 == CancelAllTimeouts(w)
        w2 == [w1 EXCEPT !.matches[m].result_text = "cancelled",
                         !.matches[m].winner = NoWinner,
                         !.matches[m].is_finished = TRUE]
        w3 == IF w.room.tournament.phase # "none" THEN ApplyTournamentCancellation(w2) ELSE w2
        w4 == NewPending([w3 EXCEPT !.room.match = None, !.obs.ended = "cancelled"])
    IN CASE f.pc = "cm_entry" ->
              IF f.user # w.room.host \/ m = None THEN Return(w, t, FALSE)
              ELSE IF w.matches[m].is_finished THEN Return(w, t, FALSE)
              ELSE IF w.room.tournament.phase # "none"
              THEN SleepAt(w4, t, "cm_next", NEXT_MATCH_DELAY)
              ELSE Return(w4, t, FALSE)
         [] f.pc = "cm_next" -> CallLast(w, t, "cm_end", NextMatchFrame)
         [] OTHER -> Return(w, t, FALSE)

\* ------------------------------------------------------------------------
\* realtime/match/actions/captain.py
\* ------------------------------------------------------------------------
\* _forfeit_match_for_non_response
ForfeitMatchForNonResponse(w, t) ==
    LET f == Top(w, t)
        m == w.room.match
        match == w.matches[m]
        winning_side == IF f.user \in Range(match.side_a) THEN match.side_b
                        ELSE match.side_a
        w1 == [w EXCEPT !.matches[m].winner = winning_side,
                        !.matches[m].result_text = "forfeit",
                        !.matches[m].is_finished = TRUE,
                        !.matches[m].nrr_locked = TRUE]
        w2 == NewPending(CancelAllTimeouts(w1))
        w3 == IF w.room.tournament.phase # "none" THEN ApplyTournamentResult(w2) ELSE w2
        w4 == NewPending([w3 EXCEPT !.room.match = None, !.obs.ended = "forfeit",
                                    !.obs.forfeit = [offender |-> f.user,
                                                     winner |-> winning_side,
                                                     row |-> w.obs.miss[f.user]]])
    IN CASE f.pc = "ff_entry" ->
              IF m = None THEN Return(w, t, FALSE)
              ELSE IF match.is_finished THEN Return(w, t, FALSE)
              ELSE IF f.user \notin Range(match.side_a) \cup Range(match.side_b)
              THEN Return(w, t, FALSE)
              ELSE IF w.room.tournament.phase # "none"
              THEN SleepAt(w4, t, "ff_next", NEXT_MATCH_DELAY)
              ELSE Return(w4, t, FALSE)
         [] f.pc = "ff_next" -> CallLast(w, t, "ff_end", NextMatchFrame)
         [] OTHER -> Return(w, t, FALSE)

CaptainTimeoutFrame(role, captain, m, i) ==
    [Frame("ct_fire") EXCEPT !.role = role, !.user = captain, !.m = m, !.i = i]

NeedsChoice(inn, role) ==
    IF role = "captain_bat" THEN inn.needs_batter_choice ELSE inn.needs_bowler_choice

PickOptions(inn, role) ==
    ChoiceList(IF role = "captain_bat" THEN AvailableNextBatters(inn)
               ELSE AvailableNextBowlers(inn))

ApplyChoice(inn, role, player) ==
    IF role = "captain_bat" THEN ApplyBatterChoice(inn, player)
    ELSE ApplyBowlerChoice(inn, player)

PickSide(inn, role) ==
    IF role = "captain_bat" THEN inn.batting_side ELSE inn.bowling_side

\* the choice is applied, the state is sent and play resumes with the ball
\* countdowns and the CPU's moves
ResumeAfterPick(w, t, cont, inn, player) ==
    LET f == Top(w, t)
        w1 == SetInn(w, f.m, f.i, ApplyChoice(inn, f.role, player))
    IN CallLast(StartBallCountdowns(SendMatchState(w1), f.m, f.i), t, cont,
                CpuMoveFrame(f.m, f.i))

\* the captain's timeout applies the first candidate and records a strike
AutoPicked(w, f, inn, player) ==
    AutoStrike([SetInn(w, f.m, f.i, ApplyChoice(inn, f.role, player))
                EXCEPT !.obs.run.kind = f.role, !.obs.run.user = f.user,
                       !.obs.run.pick = player, !.obs.run.at = <<f.m, f.i>>], f.user)

\* _handle_auto_strike as called by the captain's timeout
CaptainStrike(w, t, f) ==
    IF StrikeForfeits(w, f.user, f.role)
    THEN Call(w, t, "ct_resume", ForfeitFrame(f.user))
    ELSE Goto(w, t, "ct_resume")

\* _captain_batter_timeout and _captain_bowler_timeout
CaptainTimeout(w, t) ==
    LET f == Top(w, t)
        inn == Inn(w, f.m, f.i)
        choice == PickOptions(inn, f.role)
    IN CASE f.pc = "ct_fire" ->
              IF w.room.match = None THEN Return(w, t, FALSE)
              ELSE IF ~NeedsChoice(inn, f.role) \/ Len(choice) = 0 THEN Return(w, t, FALSE)
              ELSE CaptainStrike(AutoPicked(w, f, inn, choice[1].player), t, f)
         [] f.pc = "ct_resume" ->
              CallLast(StartBallCountdowns(SendMatchState(w), f.m, f.i), t, "ct_auto",
                       CpuMoveFrame(f.m, f.i))
         [] f.pc = "ct_auto" -> CallLast(w, t, "ct_end", AutoPlayFrame)
         [] OTHER -> Return(w, t, FALSE)

\* _start_captain_batter_pick and _start_captain_bowler_pick
StartCaptainPick(w, t) ==
    LET f == Top(w, t)
        inn == Inn(w, f.m, f.i)
        captain == CaptainForSide(w.room, PickSide(inn, f.role))
        choice == PickOptions(inn, f.role)
    IN CASE f.pc = "sp_entry" ->
              IF captain = NoPlayer \/ IsCpu(w.room, captain)
              THEN IF Len(choice) > 0
                   THEN ResumeAfterPick(w, t, "sp_auto", inn, choice[1].player)
                   ELSE IF captain = NoPlayer
                   THEN CallLast(StartBallCountdowns(SendMatchState(w), f.m, f.i), t,
                                 "sp_auto", CpuMoveFrame(f.m, f.i))
                   ELSE Return(w, t, FALSE)
              ELSE Return(StartTimeout(w, f.role,
                              CaptainTimeoutFrame(f.role, captain, f.m, f.i),
                              Seconds(CAPTAIN_PICK_TIMEOUT)), t, FALSE)
         [] f.pc = "sp_auto" -> CallLast(w, t, "sp_end", AutoPlayFrame)
         [] OTHER -> Return(w, t, FALSE)

\* _trigger_captain_picks_if_needed
TriggerCaptainPicksIfNeeded(w, t) ==
    LET f == Top(w, t)
        inn == Inn(w, f.m, f.i)
    IN CASE f.pc = "tp_entry" /\ inn.needs_batter_choice ->
              Call(w, t, "tp_bowl", StartPickFrame("captain_bat", f.m, f.i))
         [] f.pc = "tp_entry" /\ ~inn.needs_batter_choice /\ inn.needs_bowler_choice ->
              CallLast(w, t, "tp_end", StartPickFrame("captain_bowl", f.m, f.i))
         [] f.pc = "tp_bowl" /\ inn.needs_bowler_choice ->
              CallLast(w, t, "tp_end", StartPickFrame("captain_bowl", f.m, f.i))
         [] OTHER -> Return(w, t, FALSE)

\* handle_pick_batter and handle_pick_bowler without the test of the chosen
\* name against the enabled candidates
HandlePickAnyName(w, t) ==
    LET f == Top(w, t)
        m == w.room.match
        a == ActiveInnings(w.matches[m])
        inn == Inn(w, m, a)
        w1 == SetTop(CancelTimeout(w, f.role), t, [f EXCEPT !.m = m, !.i = a])
    IN CASE f.pc = "hp_entry" ->
              IF m = None THEN Return(w, t, FALSE)
              ELSE IF a = 0 THEN Return(w, t, FALSE)
              ELSE IF ~NeedsChoice(inn, f.role) THEN Return(w, t, FALSE)
              ELSE IF f.user # CaptainForSide(w.room, PickSide(inn, f.role))
              THEN Return(w, t, FALSE)
              ELSE ResumeAfterPick(w1, t, "hp_auto", inn, f.arg)
         [] f.pc = "hp_auto" -> CallLast(w, t, "hp_end", AutoPlayFrame)
         [] OTHER -> Return(w, t, FALSE)

\* handle_pick_batter and handle_pick_bowler; the frame holds the sender
\* (user) and the chosen player (arg)
HandlePick(w, t) ==
    LET f == Top(w, t)
        m == w.room.match
        a == ActiveInnings(w.matches[m])
        inn == Inn(w, m, a)
        valid_names == {o.player : o \in Range(PickOptions(inn, f.role))}
        w1 == SetTop(CancelTimeout(w, f.role), t, [f EXCEPT !.m = m, !.i = a])
    IN CASE f.pc = "hp_entry" ->
              IF m = None THEN Return(w, t, FALSE)
              ELSE IF a = 0 THEN Return(w, t, FALSE)
              ELSE IF ~NeedsChoice(inn, f.role) THEN Return(w, t, FALSE)
              ELSE IF f.user # CaptainForSide(w.room, PickSide(inn, f.role))
              THEN Return(w, t, FALSE)
              ELSE IF f.arg \notin valid_names THEN Return(w, t, FALSE)
              ELSE ResumeAfterPick(w1, t, "hp_auto", inn, f.arg)
         [] f.pc = "hp_auto" -> CallLast(w, t, "hp_end", AutoPlayFrame)
         [] OTHER -> Return(w, t, FALSE)


\* ------------------------------------------------------------------------
\* realtime/cpu.py; c1 and c2 are the outcomes of cpu_pick_move
\* ------------------------------------------------------------------------
\* maybe_cpu_move writing, after its delay, into the dictionary the room
\* holds then instead of the one it read before the delay
MaybeCpuMoveRoomDict(w, t, c1, c2) ==
    LET f == Top(w, t)
        inn == Inn(w, f.m, f.i)
        d == w.room.pending_moves
        striker_is_cpu == IsCpu(w.room, Striker(inn))
        bowler_is_cpu == IsCpu(w.room, CurrentBowler(inn))
        held == [f EXCEPT !.pend = d, !.flag = bowler_is_cpu]
        w1 == Put(w, d, "bat", c1, "cpu", Striker(inn), Delivery(w, f.m, f.i))
        w2 == IF f.flag /\ ~Has(w1, d, "bowl")
              THEN Put(w1, d, "bowl", c2, "cpu", CurrentBowler(inn),
                       Delivery(w, f.m, f.i))
              ELSE w1
        w3 == Put(w, d, "bowl", c1, "cpu", CurrentBowler(inn), Delivery(w, f.m, f.i))
    IN CASE f.pc = "mc_entry" ->
              IF ~w.room.cpu_enabled THEN Return(w, t, FALSE)
              ELSE IF inn.needs_batter_choice \/ inn.needs_bowler_choice
              THEN CallLast(w, t, "mc_end", CpuPicksFrame(f.m, f.i))
              ELSE IF striker_is_cpu /\ ~Has(w, d, "bat")
              THEN SleepAt(SetTop(w, t, held), t, "mc_bat", CPU_MOVE_DELAY)
              ELSE IF bowler_is_cpu /\ ~Has(w, d, "bowl")
              THEN SleepAt(SetTop(w, t, held), t, "mc_bowl", CPU_MOVE_DELAY)
              ELSE Return(w, t, FALSE)
         [] f.pc = "mc_bat" -> Return(SendMatchState(w2), t, FALSE)
         [] f.pc = "mc_bowl" -> Return(SendMatchState(w3), t, FALSE)
         [] OTHER -> Return(w, t, FALSE)

MaybeCpuMove(w, t, c1, c2) ==
    LET f == Top(w, t)
        inn == Inn(w, f.m, f.i)
        d == w.room.pending_moves
        striker_is_cpu == IsCpu(w.room, Striker(inn))
        bowler_is_cpu == IsCpu(w.room, CurrentBowler(inn))
        held == [f EXCEPT !.pend = d, !.flag = bowler_is_cpu]
        w1 == Put(w, f.pend, "bat", c1, "cpu", Striker(inn), Delivery(w, f.m, f.i))
        w2 == IF f.flag /\ ~Has(w1, f.pend, "bowl")
              THEN Put(w1, f.pend, "bowl", c2, "cpu", CurrentBowler(inn),
                       Delivery(w, f.m, f.i))
              ELSE w1
        w3 == Put(w, f.pend, "bowl", c1, "cpu", CurrentBowler(inn), Delivery(w, f.m, f.i))
    IN CASE f.pc = "mc_entry" ->
              IF ~w.room.cpu_enabled THEN Return(w, t, FALSE)
              ELSE IF inn.needs_batter_choice \/ inn.needs_bowler_choice
              THEN CallLast(w, t, "mc_end", CpuPicksFrame(f.m, f.i))
              ELSE IF striker_is_cpu /\ ~Has(w, d, "bat")
              THEN SleepAt(SetTop(w, t, held), t, "mc_bat", CPU_MOVE_DELAY)
              ELSE IF bowler_is_cpu /\ ~Has(w, d, "bowl")
              THEN SleepAt(SetTop(w, t, held), t, "mc_bowl", CPU_MOVE_DELAY)
              ELSE Return(w, t, FALSE)
         [] f.pc = "mc_bat" -> Return(SendMatchState(w2), t, FALSE)
         [] f.pc = "mc_bowl" -> Return(SendMatchState(w3), t, FALSE)
         [] OTHER -> Return(w, t, FALSE)

\* _handle_cpu_captain_picks
HandleCpuCaptainPicks(w, t) ==
    LET f == Top(w, t)
        inn == Inn(w, f.m, f.i)
        bat_captain == CaptainForSide(w.room, inn.batting_side)
        bowl_captain == CaptainForSide(w.room, inn.bowling_side)
        bat_choice == PickOptions(inn, "captain_bat")
        bowl_choice == PickOptions(inn, "captain_bowl")
    IN CASE f.pc = "hc_entry" ->
              IF inn.needs_batter_choice /\ bat_captain # NoPlayer
                 /\ IsCpu(w.room, bat_captain)
              THEN IF Len(bat_choice) > 0
                   THEN SleepAt(SetTop(w, t, [f EXCEPT !.role = "captain_bat",
                                                      !.arg = bat_choice[1].player]),
                                t, "hc_apply", CPU_PICK_DELAY)
                   ELSE Return(w, t, FALSE)
              ELSE IF inn.needs_bowler_choice /\ bowl_captain # NoPlayer
                      /\ IsCpu(w.room, bowl_captain) /\ Len(bowl_choice) > 0
              THEN SleepAt(SetTop(w, t, [f EXCEPT !.role = "captain_bowl",
                                                 !.arg = bowl_choice[1].player]),
                           t, "hc_apply", CPU_PICK_DELAY)
              ELSE Return(w, t, FALSE)
         [] f.pc = "hc_apply" ->
              CallLast(SendMatchState(SetInn(w, f.m, f.i, ApplyChoice(inn, f.role, f.arg))),
                       t, "hc_end", CpuMoveFrame(f.m, f.i))
         [] OTHER -> Return(w, t, FALSE)

AutoPlayExit(w, t) == Return([w EXCEPT !.room.cpu_autoplay = FALSE], t, FALSE)

\* one pass through the while loop, up to its first sleep
AutoPlayLoop(w, t, c1, c2) ==
    LET m == w.room.match
        match == w.matches[m]
        a == ActiveInnings(match)
        inn == match.inns[a]
        d == w.room.pending_moves
        w1 == IF Has(w, d, "bat") THEN w
              ELSE Put(w, d, "bat", c1, "cpu", Striker(inn), Delivery(w, m, a))
        w2 == IF Has(w1, d, "bowl") THEN w1
              ELSE Put(w1, d, "bowl", c2, "cpu", CurrentBowler(inn), Delivery(w, m, a))
    IN IF m = None THEN AutoPlayExit(w, t)
       ELSE IF match.is_finished \/ a = 0 THEN AutoPlayExit(w, t)
       ELSE IF inn.needs_batter_choice \/ inn.needs_bowler_choice
       THEN CallLast(w, t, "ap_exit", CpuPicksFrame(m, a))
       ELSE IF ~(IsCpu(w.room, Striker(inn)) /\ IsCpu(w.room, CurrentBowler(inn)))
       THEN AutoPlayExit(w, t)
       ELSE SleepAt(SetTop(w2, t, [Frame("ap_resolve") EXCEPT !.m = m, !.i = a]),
                    t, "ap_resolve", CPU_MOVE_DELAY)

AutoPlayCpuMatch(w, t, c1, c2) ==
    LET f == Top(w, t)
    IN CASE f.pc = "ap_entry" ->
              IF w.room.cpu_autoplay THEN Return(w, t, FALSE)
              ELSE AutoPlayLoop([w EXCEPT !.room.cpu_autoplay = TRUE], t, c1, c2)
         [] f.pc = "ap_loop" -> AutoPlayLoop(w, t, c1, c2)
         [] f.pc = "ap_resolve" -> Call(w, t, "ap_after", ResolveFrame(f.m, f.i))
         [] f.pc = "ap_after" ->
              IF ~w.tasks[t].ret THEN AutoPlayExit(w, t)
              ELSE SleepAt(SetTop(w, t, Frame("ap_loop")), t, "ap_loop", YIELD)
         [] OTHER -> AutoPlayExit(w, t)

\* cpu_call_toss; won is the outcome of call == coin
CpuCallToss(w, t, won) ==
    LET m == w.room.match
        match == ResolveToss(w.matches[m], won)
        w1 == [w EXCEPT !.matches[m] = match, !.room.toss_state.phase = "choosing"]
    IN CASE Top(w, t).pc = "cc_entry" ->
              IF m = None THEN Return(w, t, FALSE)
              ELSE IF IsCpu(w.room, match.toss_winner)
              THEN CallLast(w1, t, "cc_end", Frame("cz_entry"))
              ELSE Return(w1, t, FALSE)
         [] OTHER -> Return(w, t, FALSE)

\* toss_choice lines 131-138 and cpu_choose_toss lines 209-216
OpeningBall(w, t, cont) ==
    LET f == Top(w, t)
        a == ActiveInnings(w.matches[f.mm])
    IN CallLast(IF a # 0 THEN StartBallCountdowns(SendMatchState(w), f.mm, a)
                ELSE SendMatchState(w),
                t, cont, AutoPlayFrame)

\* cpu_choose_toss; choice is the outcome of the random draw
CpuChooseToss(w, t, choice) ==
    LET m == w.room.match
        w1 == [w EXCEPT !.matches[m] = StartInnings1(ApplyTossChoice(@, choice))]
    IN CASE Top(w, t).pc = "cz_entry" ->
              IF m = None THEN Return(w, t, FALSE)
              ELSE SleepAt(SetTop(w1, t, [Frame("cz_go") EXCEPT !.mm = m]), t, "cz_go",
                           FIRST_BALL_DELAY)
         [] Top(w, t).pc = "cz_go" -> OpeningBall(w, t, "cz_end")
         [] OTHER -> Return(w, t, FALSE)


\* ------------------------------------------------------------------------
\* realtime/match/toss.py
\* ------------------------------------------------------------------------
\* initiate_toss; caller is the outcome of random.choice(all_players)
InitiateToss(w, t, caller) ==
    LET f == Top(w, t)
        m == w.room.match
        human_captain == IF w.room.mode = "team" /\ IsCpu(w.room, caller)
                         THEN HumanCaptainForCpu(w.room, caller) ELSE NoPlayer
        toss_caller == IF human_captain # NoPlayer THEN human_captain ELSE caller
        w1 == [w EXCEPT !.matches[m].toss_caller = caller,
                        !.room.toss_state = [caller |-> toss_caller, phase |-> "calling"]]
    IN CASE f.pc = "it_entry" ->
              IF IsCpu(w.room, caller) /\ human_captain = NoPlayer
              THEN SleepAt(SetTop(w1, t, [f EXCEPT !.user = caller]), t, "it_cpu",
                           CPU_PICK_DELAY)
              ELSE Return(w1, t, FALSE)
         [] f.pc = "it_cpu" -> Call(w, t, "it_timer", Frame("cc_entry"))
         [] OTHER ->
              Return(SpawnTask(w, [Frame("xc_fire") EXCEPT !.user = f.user],
                               Seconds(CPU_PICK_TIMEOUT)), t, FALSE)

\* toss_call; the frame holds the sender (user), won is the outcome of
\* call == coin
TossCall(w, t, won) ==
    LET f == Top(w, t)
        m == w.room.match
        match == ResolveToss(w.matches[m], won)
        winner == match.toss_winner
        human_captain == IF w.room.mode = "team" /\ IsCpu(w.room, winner)
                         THEN HumanCaptainForCpu(w.room, winner) ELSE NoPlayer
        w1 == [w EXCEPT !.matches[m] = match, !.room.toss_state.phase = "choosing"]
    IN CASE f.pc = "tc_entry" ->
              IF m = None THEN Return(w, t, FALSE)
              ELSE IF f.user # w.room.toss_state.caller THEN Return(w, t, FALSE)
              ELSE IF IsCpu(w.room, w.room.toss_state.caller) THEN Return(w, t, FALSE)
              ELSE IF IsCpu(w.room, winner) /\ human_captain = NoPlayer
              THEN Call(SetTop(w1, t, [f EXCEPT !.arg = winner]), t, "tc_timer",
                        Frame("cz_entry"))
              ELSE Return(w1, t, FALSE)
         [] OTHER ->
              Return(SpawnTask(w, [Frame("xz_fire") EXCEPT !.user = f.arg],
                               Seconds(CPU_PICK_TIMEOUT)), t, FALSE)

\* toss_choice; the frame holds the sender (user) and the choice (role)
TossChoice(w, t) ==
    LET f == Top(w, t)
        m == w.room.match
        toss_winner == w.matches[m].toss_winner
        human_captain == IF w.room.mode = "team" /\ IsCpu(w.room, toss_winner)
                         THEN HumanCaptainForCpu(w.room, toss_winner) ELSE NoPlayer
        w1 == [w EXCEPT !.matches[m] = StartInnings1(ApplyTossChoice(@, f.role))]
    IN CASE f.pc = "tz_entry" ->
              IF m = None THEN Return(w, t, FALSE)
              ELSE IF f.user # toss_winner /\ (human_captain = NoPlayer \/ f.user # human_captain)
              THEN Return(w, t, FALSE)
              ELSE IF IsCpu(w.room, toss_winner) /\ human_captain = NoPlayer
              THEN Call(SetTop(w, t, [f EXCEPT !.arg = toss_winner]), t, "tz_timer",
                        Frame("cz_entry"))
              ELSE SleepAt(SetTop(w1, t, [Frame("tz_go") EXCEPT !.mm = m]), t, "tz_go",
                           FIRST_BALL_DELAY)
         [] f.pc = "tz_go" -> OpeningBall(w, t, "tz_end")
         [] f.pc = "tz_timer" ->
              Return(SpawnTask(w, [Frame("xz_fire") EXCEPT !.user = f.arg],
                               Seconds(CPU_PICK_TIMEOUT)), t, FALSE)
         [] OTHER -> Return(w, t, FALSE)

\* _cpu_call_timeout and _cpu_choice_timeout; the frame holds the caller or
\* the winner (user)
CpuTossTimeout(w, t) ==
    LET f == Top(w, t)
        m == w.room.match
    IN CASE f.pc = "xc_fire" ->
              IF m = None THEN Return(w, t, FALSE)
              ELSE IF w.room.toss_state.phase # "calling" \/ ~IsCpu(w.room, f.user)
              THEN Return(w, t, FALSE)
              ELSE CallLast(w, t, "x_end", Frame("cc_entry"))
         [] f.pc = "xz_fire" ->
              IF m = None THEN Return(w, t, FALSE)
              ELSE IF w.matches[m].toss_choice # "none"
                      \/ w.room.toss_state.phase # "choosing" \/ ~IsCpu(w.room, f.user)
              THEN Return(w, t, FALSE)
              ELSE CallLast(w, t, "x_end", Frame("cz_entry"))
         [] OTHER -> Return(w, t, FALSE)

\* ------------------------------------------------------------------------
\* realtime/match/match_start.py and realtime/tournament.py
\* ------------------------------------------------------------------------
\* start_match; the lobby passes the checks of lines 18-55
StartMatch(w, t) ==
    LET f == Top(w, t)
        room == w.room
        vs_cpu == room.cpu_only \/ (room.cpu_enabled /\ Len(room.humans) = 1)
        match == IF room.mode = "team"
                 THEN NewMatch("team", room.teams.A, room.teams.B, room.overs, room.wickets)
                 ELSE IF vs_cpu
                 THEN NewMatch("cpu", <<room.humans[1]>>, <<room.cpu_names[1]>>,
                               room.overs, room.wickets)
                 ELSE NewMatch(room.mode, <<room.humans[1]>>, <<room.humans[2]>>,
                               room.overs, room.wickets)
        w1 == NewPending(NewRoomMatch(w, match))
        w2 == CancelAllTimeouts([w1 EXCEPT !.room.auto_move_strikes = NoStrikes,
                                           !.obs.started = @ + 1,
                                           !.obs.ended = "",
                                           !.obs.miss = NoStrikes])
    IN CASE f.pc = "sm_entry" ->
              IF f.user # room.host THEN Return(w, t, FALSE)
              ELSE CallLast(w2, t, "sm_end", TossFrame)
         [] OTHER -> Return(w, t, FALSE)

\* start_tournament
StartTournament(w, t) ==
    LET f == Top(w, t)
        room == w.room
        usernames == IF room.cpu_enabled THEN room.humans \o room.cpu_names
                     ELSE room.humans
    IN CASE f.pc = "st_entry" ->
              IF f.user # room.host \/ room.cpu_only \/ Len(usernames) < 4
              THEN Return(w, t, FALSE)
              ELSE CallLast([w EXCEPT !.room.tournament = NewTournament(usernames)],
                            t, "st_end", NextMatchFrame)
         [] OTHER -> Return(w, t, FALSE)

\* start_next_tournament_match and create_tournament_match
StartNextTournamentMatch(w, t) ==
    LET f == Top(w, t)
        tour == w.room.tournament
        pair == tour.group_matches[tour.current_group_match_idx + 1]
        match == NewMatch("tournament", <<pair[1]>>, <<pair[2]>>,
                          w.room.overs, w.room.wickets)
        w1 == NewPending(NewRoomMatch(w, match))
    IN CASE f.pc = "sn_entry" ->
              IF tour.phase = "group"
                 /\ tour.current_group_match_idx < Len(tour.group_matches)
              THEN CallLast([w1 EXCEPT !.obs.started = @ + 1, !.obs.ended = "",
                                       !.obs.miss = NoStrikes],
                            t, "sn_end", TossFrame)
              ELSE Return(w, t, FALSE)
         [] OTHER -> Return(w, t, FALSE)

\* ------------------------------------------------------------------------
\* cpu/cpu_learning_utils.py
\*
\* A list of seven frequencies is a pair <<nums, den>> with den > 0 that
\* stands for the floats nums[1]/den, .., nums[7]/den; the frequency of
\* move m is at index m + 1.  A single float is a pair <<num, den>>.  The
\* arithmetic is exact: the rounding of floats is not modelled, except for
\* the calls of round().
\* ------------------------------------------------------------------------
MAX_SAMPLES_GLOBAL == 1000
MAX_SAMPLES_USER == 500
MAX_SAMPLES_SITUATIONAL == 200
\* get_user_id_from_username: the id of a CPU
CPU_USER == 0 - 1

MoveIdx == 1..(MOVE_MAX + 1)

RECURSIVE SumTo(_, _)
SumTo(nums, n) == IF n = 0 THEN 0 ELSE nums[n] + SumTo(nums, n - 1)
\* sum(freqs), as a multiple of 1/den
Total(nums) == SumTo(nums, Len(nums))

RECURSIVE Gcd(_, _)
Gcd(a, b) == IF b = 0 THEN a ELSE Gcd(b, a % b)
RECURSIVE GcdTo(_, _)
GcdTo(nums, n) == IF n = 0 THEN 0 ELSE Gcd(nums[n], GcdTo(nums, n - 1))
\* the same frequencies written in lowest terms
Lowest(f) ==
    LET g == Gcd(f[2], GcdTo(f[1], Len(f[1])))
    IN <<[i \in DOMAIN f[1] |-> f[1][i] \div g], f[2] \div g>>

\* [0.0] * 7, the column defaults of the pattern tables
ZeroFreqs == <<[i \in MoveIdx |-> 0], 1>>
\* freqs = [0.0] * 7; freqs[move] = 1.0
OneHot(move) == <<[i \in MoveIdx |-> IF i = move + 1 THEN 1 ELSE 0], 1>>

LessThan(x, y) == x[1] * y[2] < y[1] * x[2]
AtMost(x, y) == x[1] * y[2] <= y[1] * x[2]
MinOf(x, y) == IF AtMost(x, y) THEN x ELSE y

\* normalize_frequencies
NormalizeFrequencies(f) ==
    IF Total(f[1]) <= 0 THEN <<[i \in MoveIdx |-> 1], MOVE_MAX + 1>>
    ELSE Lowest(<<f[1], Total(f[1])>>)

\* exponential_moving_average_update: alpha is 1/k
ExponentialMovingAverageUpdate(old_freqs, observed_move, total_samples, max_samples) ==
    LET k == IF total_samples + 1 < max_samples THEN total_samples + 1 ELSE max_samples
        new_freqs == [i \in MoveIdx |->
                        old_freqs[1][i] * (k - 1)
                        + (IF i = observed_move + 1 THEN old_freqs[2] ELSE 0)]
    IN [freqs |-> NormalizeFrequencies(<<new_freqs, old_freqs[2] * k>>),
        samples |-> total_samples + 1]

\* round(x, 3) of a float x >= 0, in thousandths
Round3(x) == (2000 * x[1] + x[2]) \div (2 * x[2])

\* as CalculateLearningPhase, with the boundary of the first phase one
\* ball later
CalculateLearningPhaseLate(total_balls) ==
    IF total_balls <= 60
    THEN [phase |-> "global",
          confidence |-> Round3(MinOf(<<3 * total_balls, 600>>, <<3, 10>>))]
    ELSE IF total_balls < 300
    THEN [phase |-> "transition",
          confidence |-> Round3(<<720 + 4 * (total_balls - 60), 2400>>)]
    ELSE [phase |-> "personalized",
          confidence |-> Round3(<<28 * (total_balls - 100) + 10 * (total_balls - 300),
                                  40 * (total_balls - 100)>>)]

\* calculate_learning_phase: the phase, and the confidence in thousandths.
\* 0.7 + 0.25 * (1 - 1 / (1 + excess / 200)) is 7/10 + excess / (4 * (200 +
\* excess)), and 200 + excess is total_balls - 100.
CalculateLearningPhase(total_balls) ==
    IF total_balls < 60
    THEN [phase |-> "global",
          confidence |-> Round3(MinOf(<<3 * total_balls, 600>>, <<3, 10>>))]
    ELSE IF total_balls < 300
    THEN [phase |-> "transition",
          confidence |-> Round3(<<720 + 4 * (total_balls - 60), 2400>>)]
    ELSE [phase |-> "personalized",
          confidence |-> Round3(<<28 * (total_balls - 100) + 10 * (total_balls - 300),
                                  40 * (total_balls - 100)>>)]

\* ------------------------------------------------------------------------
\* cpu/cpu_strategy_engine.py
\* ------------------------------------------------------------------------
\* get_learning_phase: the weights and the confidence are floats
GetLearningPhase(total_balls) ==
    IF total_balls < 60
    THEN [phase |-> "global", global_weight |-> <<1, 1>>, user_weight |-> <<0, 1>>,
          confidence |-> MinOf(<<total_balls, 60>>, <<3, 10>>)]
    ELSE IF total_balls < 300
    THEN [phase |-> "transition",
          global_weight |-> <<420 - (total_balls - 60), 600>>,
          user_weight |-> <<180 + (total_balls - 60), 600>>,
          confidence |-> <<144 + (total_balls - 60), 480>>]
    ELSE [phase |-> "personalized", global_weight |-> <<2, 10>>, user_weight |-> <<8, 10>>,
          confidence |-> MinOf(<<800 + (total_balls - 300), 1000>>, <<95, 100>>)]

\* ------------------------------------------------------------------------
\* cpu/cpu_learning_integration.py and cpu/cpu_learning_processor.py
\*
\* db is the learning database: the table match_ball_log (log, the id of a
\* row is its index), the table cpu_learning_queue (queue, in id order) and
\* the pattern tables, each a function from the columns that identify a row
\* to the row.  All balls are of one match in one format, game phase and
\* score situation, so these columns are left out of the keys.  In a queue
\* item, taken counts the batches that selected the item and failed tells
\* that its update raised.
\* ------------------------------------------------------------------------
BATCH_LIMIT == 10

EmptyDb ==
    [log |-> << >>, queue |-> << >>,
     global_pattern |-> << >>, user_profile |-> << >>,
     situational_pattern |-> << >>, sequence_pattern |-> << >>,
     learning_progress |-> << >>]

\* db.add of a new row, or the update of the row found by the query
Upsert(table, key, row) ==
    [k \in DOMAIN table \cup {key} |-> IF k = key THEN row ELSE table[k]]

\* log_ball_to_database: the ball is logged and queued in one transaction
LogBallToDatabase(db, batter_user_id, bowler_user_id, bat_move, bowl_move) ==
    LET ball == [ball_number |-> Len(db.log) + 1,
                 batter_user_id |-> batter_user_id,
                 bowler_user_id |-> bowler_user_id,
                 bat_move |-> bat_move, bowl_move |-> bowl_move,
                 is_out |-> bat_move = bowl_move,
                 runs_scored |-> IF bat_move = bowl_move THEN 0
                                 ELSE RunsScored(bat_move, bowl_move)]
    IN [db EXCEPT !.log = Append(@, ball),
                  !.queue = Append(@, [ball_log_id |-> Len(db.log) + 1,
                                       processed |-> FALSE,
                                       taken |-> 0, failed |-> FALSE])]

\* as UpdateGlobalPattern, but a new pattern is stored with the column
\* defaults
UpdateGlobalPatternUnset(db, role, move) ==
    IF role \in DOMAIN db.global_pattern
    THEN LET pattern == db.global_pattern[role]
             new == ExponentialMovingAverageUpdate(pattern.freqs, move,
                        pattern.total_samples, MAX_SAMPLES_GLOBAL)
         IN [db EXCEPT !.global_pattern[role] =
                [freqs |-> new.freqs, total_samples |-> new.samples]]
    ELSE [db EXCEPT !.global_pattern =
             Upsert(@, role, [freqs |-> ZeroFreqs, total_samples |-> 1])]

\* _update_global_pattern
UpdateGlobalPattern(db, role, move) ==
    IF role \in DOMAIN db.global_pattern
    THEN LET pattern == db.global_pattern[role]
             new == ExponentialMovingAverageUpdate(pattern.freqs, move,
                        pattern.total_samples, MAX_SAMPLES_GLOBAL)
         IN [db EXCEPT !.global_pattern[role] =
                [freqs |-> new.freqs, total_samples |-> new.samples]]
    ELSE [db EXCEPT !.global_pattern =
             Upsert(@, role, [freqs |-> OneHot(move), total_samples |-> 1])]

\* _update_user_profile: a new profile has the frequencies of the other
\* role at the column defaults
UpdateUserProfile(db, user_id, role, move) ==
    IF user_id \in DOMAIN db.user_profile
    THEN LET profile == db.user_profile[user_id]
             bat == ExponentialMovingAverageUpdate(profile.bat_freqs, move,
                        profile.total_balls_faced, MAX_SAMPLES_USER)
             bowl == ExponentialMovingAverageUpdate(profile.bowl_freqs, move,
                         profile.total_balls_bowled, MAX_SAMPLES_USER)
         IN IF role = "batting"
            THEN [db EXCEPT !.user_profile[user_id].bat_freqs = bat.freqs,
                            !.user_profile[user_id].total_balls_faced = bat.samples]
            ELSE [db EXCEPT !.user_profile[user_id].bowl_freqs = bowl.freqs,
                            !.user_profile[user_id].total_balls_bowled = bowl.samples]
    ELSE [db EXCEPT !.user_profile =
             Upsert(@, user_id,
                    [bat_freqs |-> IF role = "batting" THEN OneHot(move) ELSE ZeroFreqs,
                     bowl_freqs |-> IF role = "bowling" THEN OneHot(move) ELSE ZeroFreqs,
                     total_balls_faced |-> IF role = "batting" THEN 1 ELSE 0,
                     total_balls_bowled |-> IF role = "bowling" THEN 1 ELSE 0])]

\* _update_user_learning_progress
UpdateUserLearningProgress(db, user_id) ==
    LET tracked == IF user_id \in DOMAIN db.learning_progress
                   THEN db.learning_progress[user_id].total_balls_tracked + 1
                   ELSE 1
    IN [db EXCEPT !.learning_progress =
           Upsert(@, user_id,
                  [total_balls_tracked |-> tracked,
                   learning_phase |-> CalculateLearningPhase(tracked).phase,
                   confidence_score |-> CalculateLearningPhase(tracked).confidence])]

\* order_by(ball_number.desc()).limit(limit) over the rows S of the log
RECURSIVE LatestFirst(_, _, _)
LatestFirst(log, S, limit) ==
    IF S = {} \/ limit = 0 THEN << >>
    ELSE <<log[CHOOSE i \in S : \A j \in S : j <= i]>>
         \o LatestFirst(log, S \ {CHOOSE i \in S : \A j \in S : j <= i}, limit - 1)

\* the rows of match_ball_log before ball in which the batter (or bowler) is
\* the one of ball, latest first, at most limit of them
PrevBalls(db, ball, field, limit) ==
    LatestFirst(db.log,
                {i \in 1..Len(db.log) : /\ db.log[i].ball_number < ball.ball_number
                                        /\ db.log[i][field] = ball[field]},
                limit)

\* _get_recent_event_for_ball
GetRecentEventForBall(db, ball) ==
    LET prev_balls == PrevBalls(db, ball, "batter_user_id", 3)
    IN IF prev_balls = << >> THEN "normal"
       ELSE IF prev_balls[1].is_out THEN "just_out"
       ELSE IF prev_balls[1].runs_scored = 6 THEN "hit_six"
       ELSE IF prev_balls[1].runs_scored = 0 THEN "dot_ball"
       ELSE IF Len(prev_balls) >= 3 /\ \A i \in 1..3 : prev_balls[i].runs_scored >= 4
       THEN "hot_streak"
       ELSE "normal"

\* the update of a pattern with a sample count: situational and sequence
\* patterns
UpdateCountedPattern(table, key, move) ==
    IF key \in DOMAIN table
    THEN LET new == ExponentialMovingAverageUpdate(table[key].freqs, move,
                        table[key].sample_count, MAX_SAMPLES_SITUATIONAL)
         IN [table EXCEPT ![key] = [freqs |-> new.freqs, sample_count |-> new.samples]]
    ELSE Upsert(table, key, [freqs |-> OneHot(move), sample_count |-> 1])

\* _update_situational_pattern
UpdateSituationalPattern(db, ball, user_id, role, move) ==
    [db EXCEPT !.situational_pattern =
        UpdateCountedPattern(@, <<user_id, role, GetRecentEventForBall(db, ball)>>, move)]

\* _update_sequence_pattern_record
UpdateSequencePatternRecord(db, user_id, role, prev_move, prev_result, next_move) ==
    [db EXCEPT !.sequence_pattern =
        UpdateCountedPattern(@, <<user_id, role, prev_move, prev_result>>, next_move)]

PrevResult(prev_ball) ==
    IF prev_ball.is_out THEN "out"
    ELSE IF prev_ball.runs_scored = 0 THEN "dot" ELSE "scored"

\* _update_sequence_patterns
UpdateSequencePatterns(db, ball) ==
    LET bat_prev == PrevBalls(db, ball, "batter_user_id", 1)
        bowl_prev == PrevBalls(db, ball, "bowler_user_id", 1)
        db1 == IF ball.batter_user_id # CPU_USER /\ bat_prev # << >>
               THEN UpdateSequencePatternRecord(db, ball.batter_user_id, "batting",
                        bat_prev[1].bat_move, PrevResult(bat_prev[1]), ball.bat_move)
               ELSE db
    IN IF ball.bowler_user_id # CPU_USER /\ bowl_prev # << >>
       THEN UpdateSequencePatternRecord(db1, ball.bowler_user_id, "bowling",
                bowl_prev[1].bowl_move, PrevResult(bowl_prev[1]), ball.bowl_move)
       ELSE db1

\* the updates of _update_cpu_knowledge for one user in one role
UpdateUser(db, ball, user_id, role, move) ==
    IF user_id = CPU_USER THEN db
    ELSE UpdateSituationalPattern(
             UpdateUserLearningProgress(
                 UpdateUserProfile(db, user_id, role, move), user_id),
             ball, user_id, role, move)

\* _update_cpu_knowledge
UpdateCpuKnowledge(db, ball_log_id) ==
    IF ball_log_id \notin 1..Len(db.log) THEN db
    ELSE LET ball == db.log[ball_log_id]
             db1 == UpdateGlobalPattern(UpdateGlobalPattern(db, "batting", ball.bat_move),
                                        "bowling", ball.bowl_move)
             db2 == UpdateUser(db1, ball, ball.batter_user_id, "batting", ball.bat_move)
             db3 == UpdateUser(db2, ball, ball.bowler_user_id, "bowling", ball.bowl_move)
         IN UpdateSequencePatterns(db3, ball)

\* order_by(id).limit(limit) over the items S of the queue
RECURSIVE InIdOrder(_, _)
InIdOrder(S, limit) ==
    IF S = {} \/ limit = 0 THEN << >>
    ELSE <<CHOOSE i \in S : \A j \in S : i <= j>>
         \o InIdOrder(S \ {CHOOSE i \in S : \A j \in S : i <= j}, limit - 1)

\* the query of _process_batch: the unprocessed items from id from on, in id
\* order, at most limit of them
FirstUnprocessed(queue, from, limit) ==
    InIdOrder({i \in from..Len(queue) : ~queue[i].processed}, limit)

\* as ProcessItem, but an item whose update raised is left unprocessed
ProcessItemRetried(db, id, raises) ==
    IF raises
    THEN [db EXCEPT !.queue[id].taken = @ + 1, !.queue[id].failed = TRUE]
    ELSE [UpdateCpuKnowledge(db, db.queue[id].ball_log_id)
          EXCEPT !.queue[id].processed = TRUE, !.queue[id].taken = @ + 1]

\* _process_batch, the body of the loop over the items: the update is
\* committed with the item marked processed, or rolled back when it raised
\* and the item is marked processed all the same
ProcessItem(db, id, raises) ==
    IF raises
    THEN [db EXCEPT !.queue[id].processed = TRUE, !.queue[id].taken = @ + 1,
                    !.queue[id].failed = TRUE]
    ELSE [UpdateCpuKnowledge(db, db.queue[id].ball_log_id)
          EXCEPT !.queue[id].processed = TRUE, !.queue[id].taken = @ + 1]

\* _process_batch for the items of the query; raising is the set of the
\* items whose update raises
RECURSIVE ProcessItems(_, _, _)
ProcessItems(db, items, raising) ==
    IF items = << >> THEN db
    ELSE ProcessItems(ProcessItem(db, Head(items), Head(items) \in raising),
                      Tail(items), raising)

ProcessBatch(db, raising) ==
    ProcessItems(db, FirstUnprocessed(db.queue, 1, BATCH_LIMIT), raising)

\* ------------------------------------------------------------------------
\* cpu/cpu_strategy_engine.py (select_move) and realtime/cpu.py
\*
\* A weight is a float, held as a whole number of units of 1/Precision;
\* products and quotients are rounded down to a unit.  A weight vector is a
\* function of the moves, as the dicts of the source.  context holds the
\* role of the CPU and the results of get_score_situation and
\* get_recent_event on the match context.  The random draws of a call are
\* its parameter rand: the sign of the noise of each move, the bluff (<< >>,
\* or the rank of the move it boosts), the roll of the weighted choice in
\* steps of total/RollSteps and the value of random.randint(0, 6).
\* ------------------------------------------------------------------------
Precision == 10000
RollSteps == 2

Units(x) == (x[1] * Precision) \div x[2]
Times(a, b) == (a * b) \div Precision
\* {num: F(num) for num in range(7)}; the weight of move num is the element
\* num + 1
EachMove(F(_)) == <<F(0), F(1), F(2), F(3), F(4), F(5), F(6)>>
Tenths(t) == EachMove(LAMBDA k : (t[k + 1] * Precision) \div 10)
SumWeights(weights) == Total(weights)
ScaleWeights(weights, factors) ==
    EachMove(LAMBDA k : Times(weights[k + 1], factors[k + 1]))
\* v / total for every weight v
DivideBy(weights, total) == EachMove(LAMBDA k : (weights[k + 1] * Precision) \div total)
\* {k: v / total for k, v in weights.items()}
DivideByTotal(weights) == DivideBy(weights, SumWeights(weights))

BASE_WEIGHTS == EachMove(LAMBDA k : Units(<<(<<8, 16, 16, 15, 16, 14, 15>>)[k + 1], 100>>))
\* {i: 1.0/7 for i in range(7)}
UniformWeights == EachMove(LAMBDA k : Units(<<1, MOVE_MAX + 1>>))
\* the columns num_0_freq .. num_6_freq of a row
RowWeights(f) == EachMove(LAMBDA k : Units(<<f[1][k + 1], f[2]>>))

OpponentRole(context) == IF context.role = "bowling" THEN "batting" ELSE "bowling"

\* _load_global_patterns
LoadGlobalPatterns(db, context) ==
    IF /\ context.role \in DOMAIN db.global_pattern
       /\ db.global_pattern[context.role].total_samples > 10
    THEN RowWeights(db.global_pattern[context.role].freqs)
    ELSE BASE_WEIGHTS

\* _load_user_patterns
LoadUserPatterns(db, user_id, context) ==
    IF user_id = CPU_USER \/ user_id \notin DOMAIN db.user_profile THEN UniformWeights
    ELSE IF context.role = "bowling"
    THEN IF db.user_profile[user_id].total_balls_faced < 10 THEN UniformWeights
         ELSE RowWeights(db.user_profile[user_id].bat_freqs)
    ELSE IF db.user_profile[user_id].total_balls_bowled < 10 THEN UniformWeights
         ELSE RowWeights(db.user_profile[user_id].bowl_freqs)

\* the frequencies of the row key of a table that has more than min_samples
\* samples
LoadCounted(table, key, min_samples) ==
    IF key \in DOMAIN table /\ table[key].sample_count > min_samples
    THEN RowWeights(table[key].freqs)
    ELSE UniformWeights

\* _load_situational_patterns
LoadSituationalPatterns(db, user_id, context) ==
    IF user_id = CPU_USER THEN UniformWeights
    ELSE LoadCounted(db.situational_pattern,
                     <<user_id, OpponentRole(context), context.recent_event>>, 5)

\* _load_sequence_patterns
LoadSequencePatterns(db, user_id, context, opponent_history) ==
    IF user_id = CPU_USER \/ opponent_history = << >> THEN UniformWeights
    ELSE LoadCounted(db.sequence_pattern,
                     <<user_id, OpponentRole(context),
                       opponent_history[Len(opponent_history)], "scored">>, 3)

\* _get_total_balls_tracked
GetTotalBallsTracked(db, user_id) ==
    IF user_id = CPU_USER \/ user_id \notin DOMAIN db.learning_progress THEN 0
    ELSE db.learning_progress[user_id].total_balls_tracked

\* _blend_patterns, the weight of one move before the normalisation
BlendOne(g, u, s, q, phase_info) ==
    Times(Times(Times(g, Units(phase_info.global_weight))
                + Times(u, Units(phase_info.user_weight)),
                Precision - Times(Units(<<3, 10>>), Units(phase_info.confidence)))
          + Times(s, Times(Units(<<3, 10>>), Units(phase_info.confidence))),
          Precision - Times(Units(<<4, 10>>), Units(phase_info.confidence)))
    + Times(q, Times(Units(<<4, 10>>), Units(phase_info.confidence)))

Blended(global_patterns, user_patterns, situational_patterns, sequence_patterns, phase_info) ==
    EachMove(LAMBDA k : BlendOne(global_patterns[k + 1], user_patterns[k + 1],
                                 situational_patterns[k + 1], sequence_patterns[k + 1],
                                 phase_info))

NormalizedOrUniform(blended) ==
    IF SumWeights(blended) > 0 THEN DivideByTotal(blended) ELSE UniformWeights

\* _blend_patterns
BlendPatterns(global_patterns, user_patterns, situational_patterns, sequence_patterns, phase_info) ==
    NormalizedOrUniform(Blended(global_patterns, user_patterns, situational_patterns,
                                sequence_patterns, phase_info))

\* opponent_history[-12:]
Recent(history) ==
    IF Len(history) <= 12 THEN history ELSE SubSeq(history, Len(history) - 11, Len(history))

Occurrences(recent, m) == Cardinality({i \in DOMAIN recent : recent[i] = m})
FirstSeen(recent, m) == Min({i \in DOMAIN recent : recent[i] = m})

\* [num for num, count in Counter(recent).most_common(2)]: ties go to the
\* move seen first
TopTwo(recent) ==
    {m \in Range(recent) :
        Cardinality({x \in Range(recent) :
            \/ Occurrences(recent, x) > Occurrences(recent, m)
            \/ /\ Occurrences(recent, x) = Occurrences(recent, m)
               /\ FirstSeen(recent, x) < FirstSeen(recent, m)}) < 2}

\* the factor of the moves of top is factor, that of the others 1
FactorsOf(top, factor) == EachMove(LAMBDA k : IF k \in top THEN factor ELSE Precision)

Desperate(context) ==
    context.score_pressure \in {"chasing_desperate", "chasing_very_tight"}
Comfortable(context) ==
    context.score_pressure \in {"chasing_comfortable", "defending_comfortable"}

\* _bowling_strategy
BowlingStrategy(weights, opponent_history, context, confidence) ==
    ScaleWeights(
        ScaleWeights(
            ScaleWeights(weights,
                FactorsOf(TopTwo(Recent(opponent_history)),
                          Precision + Times(Times(Units(<<15, 10>>), confidence),
                                            Units(<<5, 10>>)))),
            IF context.wickets_lost >= 7 THEN Tenths(<<13, 10, 10, 10, 10, 10, 12>>)
            ELSE Tenths(<<10, 10, 10, 10, 10, 10, 10>>)),
        IF Desperate(context) THEN Tenths(<<10, 10, 10, 10, 12, 13, 14>>)
        ELSE Tenths(<<10, 10, 10, 10, 10, 10, 10>>))

\* _batting_strategy
BattingStrategy(weights, opponent_history, context, confidence) ==
    ScaleWeights(
        ScaleWeights(
            ScaleWeights(weights,
                FactorsOf(TopTwo(Recent(opponent_history)),
                          Times(Units(<<4, 10>>), confidence))),
            IF Desperate(context) THEN Tenths(<<7, 8, 10, 10, 10, 14, 16>>)
            ELSE IF Comfortable(context) THEN Tenths(<<10, 13, 13, 12, 10, 8, 7>>)
            ELSE Tenths(<<10, 10, 10, 10, 10, 10, 10>>)),
        IF context.wickets_lost >= 7 THEN Tenths(<<12, 13, 10, 10, 10, 7, 6>>)
        ELSE Tenths(<<10, 10, 10, 10, 10, 10, 10>>))

NormalizedIfPositive(weights) ==
    IF SumWeights(weights) > 0 THEN DivideByTotal(weights) ELSE weights

\* _apply_role_strategy
ApplyRoleStrategy(weights, context, opponent_history, confidence) ==
    NormalizedIfPositive(
        IF context.role = "bowling"
        THEN BowlingStrategy(weights, opponent_history, context, confidence)
        ELSE BattingStrategy(weights, opponent_history, context, confidence))

AtLeast(floor, x) == IF x > floor THEN x ELSE floor

\* max(0.01, weights[num] + noise), the noise being noise_factor or its
\* negative or nothing
Perturbed(weights, confidence, noise) ==
    EachMove(LAMBDA k :
        AtLeast(Units(<<1, 100>>),
                weights[k + 1] + noise[k + 1] * Times(Units(<<15, 100>>), confidence)))

\* sorted(noisy.items(), key=lambda x: x[1])[rank][0]
RankedLowest(noisy, rank) ==
    CHOOSE k \in Moves :
        Cardinality({x \in Moves : \/ noisy[x + 1] < noisy[k + 1]
                                   \/ noisy[x + 1] = noisy[k + 1] /\ x < k}) = rank

\* the bluff of _add_strategic_noise: random.random() < 0.05 * confidence
Bluffed(noisy, confidence, bluff) ==
    IF bluff # << >> /\ Times(Units(<<5, 100>>), confidence) > 0
    THEN [noisy EXCEPT ![RankedLowest(noisy, bluff[1]) + 1] = @ * 3]
    ELSE noisy

\* _add_strategic_noise
AddStrategicNoise(weights, confidence, rand) ==
    NormalizedIfPositive(Bluffed(Perturbed(weights, confidence, rand.noise),
                                 confidence, rand.bluff))

\* weights[0] + .. + weights[num]
CumSum(weights, num) == SumTo(weights, num + 1)

\* the first num of range(7) with r <= cumsum, or fallback
FirstUpTo(weights, r, fallback) ==
    IF \E num \in Moves : r <= CumSum(weights, num)
    THEN Min({num \in Moves : r <= CumSum(weights, num)})
    ELSE fallback

\* as EngineWeightedChoice, but the loop runs over range(1, 8)
EngineWeightedChoiceShifted(weights, rand) ==
    IF SumWeights(weights) <= 0 THEN rand.randint
    ELSE 1 + FirstUpTo(weights, (SumWeights(weights) * rand.roll) \div RollSteps, 5)

\* CPUStrategyEngine._weighted_choice
EngineWeightedChoice(weights, rand) ==
    IF SumWeights(weights) <= 0 THEN rand.randint
    ELSE FirstUpTo(weights, (SumWeights(weights) * rand.roll) \div RollSteps, 6)

\* select_move, steps 1 and 2
SelectBlend(db, user_id, context, opponent_history) ==
    BlendPatterns(LoadGlobalPatterns(db, context),
                  LoadUserPatterns(db, user_id, context),
                  LoadSituationalPatterns(db, user_id, context),
                  LoadSequencePatterns(db, user_id, context, opponent_history),
                  GetLearningPhase(GetTotalBallsTracked(db, user_id)))

SelectConfidence(db, user_id) ==
    Units(GetLearningPhase(GetTotalBallsTracked(db, user_id)).confidence)

\* select_move
SelectMove(db, user_id, context, opponent_history, rand) ==
    EngineWeightedChoice(
        AddStrategicNoise(
            ApplyRoleStrategy(SelectBlend(db, user_id, context, opponent_history),
                              context, opponent_history, SelectConfidence(db, user_id)),
            SelectConfidence(db, user_id), rand),
        rand)

\* ConnectionManager._weighted_choice: the roll is random.random() * total
ManagerWeightedChoice(weights, rand) ==
    IF SumWeights(weights) <= 0 THEN 0
    ELSE FirstUpTo(weights, (SumWeights(weights) * rand.roll) \div (RollSteps + 1), 0)

\* sorted(counts.items(), key=lambda kv: kv[1], reverse=True)[:2], the moves
\* of it that were seen
SimpleTop(recent) ==
    {m \in Moves :
        /\ Occurrences(recent, m) > 0
        /\ Cardinality({x \in Moves :
              \/ Occurrences(recent, x) > Occurrences(recent, m)
              \/ Occurrences(recent, x) = Occurrences(recent, m) /\ x < m}) < 2}

\* cpu_pick_move_simple; recent is room.cpu_history[cpu_name][history_key][-12:]
CpuPickMoveSimple(recent, role, rand) ==
    ManagerWeightedChoice(
        EachMove(LAMBDA k :
            IF k \notin SimpleTop(recent) THEN BASE_WEIGHTS[k + 1]
            ELSE IF role = "bowl" THEN BASE_WEIGHTS[k + 1] + Units(<<18, 100>>)
            ELSE Times(BASE_WEIGHTS[k + 1], Units(<<6, 10>>))),
        rand)

\* cpu_pick_move; found tells how far the call gets: there is no match, no
\* active innings, no opponent name, no user of that name, the engine raises,
\* or the engine answers
CpuPickMove(db, found, user_id, context, opponent_history, rand) ==
    IF found \in {"no_match", "no_innings"} THEN rand.randint
    ELSE IF found \in {"no_opponent", "unknown_opponent", "engine_raises"}
    THEN CpuPickMoveSimple(Recent(opponent_history),
                           IF context.role = "batting" THEN "bat" ELSE "bowl", rand)
    ELSE SelectMove(db, user_id, context, opponent_history, rand)

\* the learning state: the database, the argument and the results of the
\* last calls of calculate_learning_phase and get_learning_phase, and the
\* arguments (pick) and the result (move) of the last pick of a CPU move
NoCall == << >>
NoLearning ==
    [db |-> EmptyDb, total_balls |-> 0, pipeline |-> NoCall, engine |-> NoCall,
     pick |-> NoCall, move |-> NoCall]

\* ------------------------------------------------------------------------
\* State
\* ------------------------------------------------------------------------
VARIABLES innings, result, room, matches, dicts, tasks, cur, obs, learning

vars == <<innings, result, room, matches, dicts, tasks, cur, obs, learning>>
roomVars == <<room, matches, dicts, tasks, cur, obs, learning>>
roomVarsOnly == <<room, matches, dicts, tasks, cur, obs>>

W == [room |-> room, matches |-> matches, dicts |-> dicts, tasks |-> tasks,
      cur |-> cur, obs |-> obs]

IsWorld(w) ==
    /\ room = w.room
    /\ matches = w.matches
    /\ dicts = w.dicts
    /\ tasks = w.tasks
    /\ cur = w.cur
    /\ obs = w.obs

Commit(w) ==
    \E c \in {Collect(w)} :
        /\ room' = c.room
        /\ matches' = c.matches
        /\ dicts' = c.dicts
        /\ tasks' = c.tasks
        /\ cur' = c.cur
        /\ obs' = c.obs
        /\ UNCHANGED <<innings, result, learning>>

\* the room of the innings specifications: a lobby in which nothing happens
RoomAtRest == IsWorld(NewWorld(CHOOSE cfg \in RoomConfigs : cfg.lobby = "1v1"))

BatNames == <<"A", "B", "C">>
BowlNames == <<"X", "Y", "Z">>

\* ------------------------------------------------------------------------
\* Specification of one innings driven ball by ball
\* ------------------------------------------------------------------------
InitInnings ==
    /\ \E n \in SideSizes, o \in 1..MaxOvers,
          k \in 1..MaxWickets, t \in Targets, tm \in BOOLEAN :
          innings = NewInnings(SubSeq(BatNames, 1, n), SubSeq(BowlNames, 1, n),
                               o, k, t, tm)
    /\ result = EmptyResult
    /\ RoomAtRest
    /\ learning = NoLearning

InnResolveBall ==
    /\ Len(innings.ball_log) < MaxBalls
    /\ ~innings.needs_batter_choice /\ ~innings.needs_bowler_choice
    /\ \E p \in InningsBalls :
          LET out == ResolveBall(innings, p[1], p[2])
          IN /\ innings' = out.inn
             /\ result' = out.result
             /\ UNCHANGED roomVars

InnApplyBatterChoice ==
    /\ innings.needs_batter_choice
    /\ \E o \in Range(ChoiceList(AvailableNextBatters(innings))) :
          innings' = ApplyBatterChoice(innings, o.player)
    /\ UNCHANGED <<result, roomVars>>

InnApplyBowlerChoice ==
    /\ innings.needs_bowler_choice
    /\ \E o \in Range(ChoiceList(AvailableNextBowlers(innings))) :
          innings' = ApplyBowlerChoice(innings, o.player)
    /\ UNCHANGED <<result, roomVars>>

NextInnings == InnResolveBall \/ InnApplyBatterChoice \/ InnApplyBowlerChoice

SpecInnings == InitInnings /\ [][NextInnings]_vars

\* ------------------------------------------------------------------------
\* Specification of an innings between two sides of three players, in team
\* mode and outside it, driven ball by ball
\* ------------------------------------------------------------------------
\* wickets of these innings: enough for three wickets in a row
TeamWickets == MaxWickets + 1

InitTeams ==
    /\ \E tm \in BOOLEAN :
          innings = NewInnings(BatNames, BowlNames, MaxOvers, TeamWickets, None, tm)
    /\ result = EmptyResult
    /\ RoomAtRest
    /\ learning = NoLearning

SpecTeams == InitTeams /\ [][NextInnings]_vars

\* ------------------------------------------------------------------------
\* Specification of resolve_ball as a function of the two moves: every pair
\* of moves in 0..6 on a fresh innings and on an innings one ball old
\* ------------------------------------------------------------------------
InitResolve ==
    /\ \E n \in SideSizes :
          innings = NewInnings(SubSeq(BatNames, 1, n), SubSeq(BowlNames, 1, n),
                               MaxOvers, MaxWickets, None, FALSE)
    /\ result = EmptyResult
    /\ RoomAtRest
    /\ learning = NoLearning

ResolveAnyBall ==
    /\ Len(innings.ball_log) < MaxResolveBalls
    /\ \E b \in Moves, w \in Moves :
          LET out == ResolveBall(innings, b, w)
          IN /\ innings' = out.inn
             /\ result' = out.result
             /\ UNCHANGED roomVars

NextResolve == ResolveAnyBall

SpecResolve == InitResolve /\ [][NextResolve]_vars

\* ------------------------------------------------------------------------
\* Specification of the group standings: results are recorded in a
\* tournament of four players, as test_tournament.py does
\* ------------------------------------------------------------------------
MaxGroupResults == 2
StandingsPlayers == <<"h1", "h3", "h4", "h2">>
\* runs of an innings, and its overs faced in sixths of an over (5 overs)
NrrRuns == {40, 50}
NrrOvers == {30}

\* the calls record_group_result(player_a, player_b, winner, nrr_data) for
\* the next match of the schedule, in either order of the two players
GroupCalls(t) ==
    LET pair == t.group_matches[t.current_group_match_idx + 1]
    IN { <<pair[i], pair[3 - i], w, NrrData(r1, o1, r2, o2, f)>> :
            i \in {1, 2}, w \in {pair[1], pair[2], NoPlayer},
            r1 \in NrrRuns, o1 \in NrrOvers, r2 \in NrrRuns, o2 \in NrrOvers,
            f \in {pair[1], pair[2], NoPlayer} }

InitStandings ==
    /\ innings = NewInnings(<<"A">>, <<"X">>, 1, 1, None, FALSE)
    /\ result = EmptyResult
    /\ IsWorld([NewWorld(CHOOSE cfg \in RoomConfigs : cfg.lobby = "tournament")
                EXCEPT !.room.tournament = NewTournament(StandingsPlayers)])
    /\ learning = NoLearning

RecordAnyGroupResult ==
    /\ room.tournament.current_group_match_idx < MaxGroupResults
    /\ \E c \in GroupCalls(room.tournament) :
          room' = [room EXCEPT !.tournament =
                      RecordGroupResult(@, c[1], c[2], c[3], c[4])]
    /\ UNCHANGED <<innings, result, matches, dicts, tasks, cur, obs, learning>>

NextStandings == RecordAnyGroupResult

SpecStandings == InitStandings /\ [][NextStandings]_vars

\* ------------------------------------------------------------------------
\* Specification of the learning queue: balls of one kind are logged and
\* the processor takes batches
\* ------------------------------------------------------------------------
MaxQueue == 11
MaxRaising == 2

AtRest ==
    /\ innings = NewInnings(<<"A">>, <<"X">>, 1, 1, None, FALSE)
    /\ result = EmptyResult
    /\ RoomAtRest

InitQueue == AtRest /\ learning = NoLearning

\* log_ball_for_learning of a ball between user 1 and a CPU
QueueLogBall ==
    /\ Len(learning.db.log) < MaxQueue
    /\ learning' = [learning EXCEPT !.db = LogBallToDatabase(@, 1, CPU_USER, 6, 0)]
    /\ UNCHANGED <<innings, result, roomVarsOnly>>

\* one run of _process_batch that finds items; the updates of any of them
\* may raise
ProcessBatchStep ==
    /\ FirstUnprocessed(learning.db.queue, 1, BATCH_LIMIT) # << >>
    /\ \E raising \in SUBSET Range(FirstUnprocessed(learning.db.queue, 1, BATCH_LIMIT)) :
          /\ Cardinality(raising) <= MaxRaising
          /\ learning' = [learning EXCEPT !.db = ProcessBatch(@, raising)]
    /\ UNCHANGED <<innings, result, roomVarsOnly>>

NextQueue == QueueLogBall \/ ProcessBatchStep

SpecQueue == InitQueue /\ [][NextQueue]_vars

\* ------------------------------------------------------------------------
\* Specification of the pattern tables: balls between two users and a CPU
\* are logged and processed, in a new database and in one that has learnt
\* from MAX_SAMPLES_SITUATIONAL equal balls
\* ------------------------------------------------------------------------
MaxUpdates == 2
\* bat move and bowl move of a logged ball
LearnMoves == {<<6, 0>>, <<0, 6>>}
\* batter and bowler of a logged ball: not two CPUs
LearnPairs == {<<1, CPU_USER>>, <<CPU_USER, 2>>, <<1, 2>>}

\* the database after n >= 2 balls in which user 1 hits a six off a CPU,
\* each logged and processed: the frequencies stay at the six and only the
\* counts grow
LearntDb(n) ==
    [log |-> [i \in 1..n |->
                 [ball_number |-> i, batter_user_id |-> 1, bowler_user_id |-> CPU_USER,
                  bat_move |-> 6, bowl_move |-> 0, is_out |-> FALSE, runs_scored |-> 6]],
     queue |-> [i \in 1..n |->
                   [ball_log_id |-> i, processed |-> TRUE, taken |-> 1, failed |-> FALSE]],
     global_pattern |-> [role \in {"batting", "bowling"} |->
                            [freqs |-> OneHot(IF role = "batting" THEN 6 ELSE 0),
                             total_samples |-> n]],
     user_profile |-> <<[bat_freqs |-> OneHot(6), bowl_freqs |-> ZeroFreqs,
                         total_balls_faced |-> n, total_balls_bowled |-> 0]>>,
     situational_pattern |->
         [key \in {<<1, "batting", "normal">>, <<1, "batting", "hit_six">>} |->
             [freqs |-> OneHot(6),
              sample_count |-> IF key[3] = "normal" THEN 1 ELSE n - 1]],
     sequence_pattern |->
         [key \in {<<1, "batting", 6, "scored">>} |->
             [freqs |-> OneHot(6), sample_count |-> n - 1]],
     learning_progress |-> <<[total_balls_tracked |-> n,
                              learning_phase |-> CalculateLearningPhase(n).phase,
                              confidence_score |-> CalculateLearningPhase(n).confidence]>>]

SeasonedDb == LearntDb(MAX_SAMPLES_SITUATIONAL)

InitPatterns ==
    /\ AtRest
    /\ \E db \in {EmptyDb, SeasonedDb} : learning = [NoLearning EXCEPT !.db = db]

PatternLogBall ==
    /\ Len(learning.db.log) < MaxUpdates
          \/ (Len(learning.db.log) >= MAX_SAMPLES_SITUATIONAL
              /\ Len(learning.db.log) < MAX_SAMPLES_SITUATIONAL + MaxUpdates)
    /\ \E p \in LearnPairs, m \in LearnMoves :
          learning' = [learning EXCEPT !.db = LogBallToDatabase(@, p[1], p[2], m[1], m[2])]
    /\ UNCHANGED <<innings, result, roomVarsOnly>>

\* one run of _process_batch that finds items, none of whose updates raises
PatternProcessBatch ==
    /\ FirstUnprocessed(learning.db.queue, 1, BATCH_LIMIT) # << >>
    /\ learning' = [learning EXCEPT !.db = ProcessBatch(@, {})]
    /\ UNCHANGED <<innings, result, roomVarsOnly>>

NextPatterns == PatternLogBall \/ PatternProcessBatch

SpecPatterns == InitPatterns /\ [][NextPatterns]_vars

\* ------------------------------------------------------------------------
\* Specification of the learning phase: the two functions are applied to a
\* count of tracked balls
\* ------------------------------------------------------------------------
MaxTracked == 340

InitPhase ==
    /\ AtRest
    /\ \E n \in 0..MaxTracked : learning = [NoLearning EXCEPT !.total_balls = n]

CalculateLearningPhaseCall ==
    /\ learning' = [learning EXCEPT !.pipeline = CalculateLearningPhase(learning.total_balls)]
    /\ UNCHANGED <<innings, result, roomVarsOnly>>

GetLearningPhaseCall ==
    /\ learning' = [learning EXCEPT !.engine = GetLearningPhase(learning.total_balls)]
    /\ UNCHANGED <<innings, result, roomVarsOnly>>

NextPhase == CalculateLearningPhaseCall \/ GetLearningPhaseCall

SpecPhase == InitPhase /\ [][NextPhase]_vars

\* ------------------------------------------------------------------------
\* Specification of the CPU's pick: select_move and cpu_pick_move are
\* applied once to a database, an opponent, a context and a history
\* ------------------------------------------------------------------------
\* a database that holds freqs in every pattern row of user 1, who has
\* tracked balls behind them
DegenerateDb(freqs, tracked) ==
    [EmptyDb EXCEPT
        !.global_pattern = [role \in {"batting", "bowling"} |->
                               [freqs |-> freqs, total_samples |-> 20]],
        !.user_profile = <<[bat_freqs |-> freqs, bowl_freqs |-> freqs,
                            total_balls_faced |-> 20, total_balls_bowled |-> 20]>>,
        !.situational_pattern =
            [key \in {1} \X {"batting", "bowling"} \X {"normal", "hit_six"} |->
                [freqs |-> freqs, sample_count |-> 20]],
        !.sequence_pattern =
            [key \in {1} \X {"batting", "bowling"} \X Moves \X {"scored"} |->
                [freqs |-> freqs, sample_count |-> 20]],
        !.learning_progress =
            <<[total_balls_tracked |-> tracked,
               learning_phase |-> CalculateLearningPhase(tracked).phase,
               confidence_score |-> CalculateLearningPhase(tracked).confidence]>>]

\* no data, the data of 60 sixes of user 1, all-zero rows and all-uniform
\* rows
PickDbs ==
    {EmptyDb, LearntDb(60), DegenerateDb(ZeroFreqs, 450),
     DegenerateDb(<<[i \in MoveIdx |-> 1], MOVE_MAX + 1>>, 300)}

PickContexts ==
    [role : {"batting", "bowling"},
     recent_event : {"normal", "hit_six"},
     score_pressure : {"defending_tight", "chasing_desperate", "chasing_comfortable"},
     wickets_lost : {1}]
    \cup [role : {"batting", "bowling"}, recent_event : {"normal"},
          score_pressure : {"chasing_desperate"}, wickets_lost : {7}]

PickHistories == {<< >>, <<4, 2, 6, 3, 4>>, <<6, 6>>}

\* user 1 is in the database, user 99 is not
PickInputs ==
    [user_id : {1, 99}, context : PickContexts, opponent_history : PickHistories]

Rands ==
    [noise : {EachMove(LAMBDA k : 0), EachMove(LAMBDA k : 0 - 1),
              EachMove(LAMBDA k : IF k % 2 = 0 THEN 1 ELSE 0 - 1)},
     bluff : {<< >>, <<0>>, <<2>>},
     roll : 0..RollSteps,
     randint : {0, MOVE_MAX}]

Founds ==
    {"no_match", "no_innings", "no_opponent", "unknown_opponent", "engine_raises",
     "engine"}

InitPick ==
    /\ AtRest
    /\ \E db \in PickDbs, pick \in PickInputs :
          learning = [NoLearning EXCEPT !.db = db, !.pick = pick]

SelectMoveCall ==
    /\ learning.move = NoCall
    /\ \E rand \in Rands :
          learning' = [learning EXCEPT !.move =
              [by |-> "select_move", found |-> "engine",
               value |-> SelectMove(learning.db, learning.pick.user_id,
                                    learning.pick.context,
                                    learning.pick.opponent_history, rand)]]
    /\ UNCHANGED <<innings, result, roomVarsOnly>>

CpuPickMoveCall ==
    /\ learning.move = NoCall
    /\ \E found \in Founds, rand \in Rands :
          learning' = [learning EXCEPT !.move =
              [by |-> "cpu_pick_move", found |-> found,
               value |-> CpuPickMove(learning.db, found, learning.pick.user_id,
                                     learning.pick.context,
                                     learning.pick.opponent_history, rand)]]
    /\ UNCHANGED <<innings, result, roomVarsOnly>>

NextPick == SelectMoveCall \/ CpuPickMoveCall

SpecPick == InitPick /\ [][NextPick]_vars

\* ------------------------------------------------------------------------
\* The room: state, messages of the clients and steps of the event loop
\* ------------------------------------------------------------------------
Init ==
    /\ innings = NewInnings(<<"A">>, <<"X">>, 1, 1, None, FALSE)
    /\ result = EmptyResult
    /\ \E cfg \in RoomConfigs : IsWorld(NewWorld(cfg))
    /\ learning = NoLearning

\* The observation ends when more matches than MaxMatches have been created.
Stopped == obs.started > MaxMatches
\* no task is running and none is waiting to be thrown CancelledError
Quiet == cur = 0 /\ \A t \in TaskIds : tasks[t].st # "dying"
InMatch == room.match # None

\* The messages a client may send now.  START_MATCH and START_TOURNAMENT
\* come from the host of a lobby in which no match was played yet, toss messages and captain picks come
\* from the player who was prompted, GAME_MOVE from any player while an
\* innings is on (with a move of the sender's role or one that is out of
\* range), CANCEL_MATCH from the host during a match.
Messages(p) ==
    LET match == matches[room.match]
        a == ActiveInnings(match)
        inn == match.inns[a]
        lobby == p = room.host /\ ~InMatch /\ obs.started = 0
        picks(role) ==
            IF InMatch /\ a # 0 /\ NeedsChoice(inn, role)
               /\ p = CaptainForSide(room, PickSide(inn, role))
            THEN {[Frame("hp_entry") EXCEPT !.user = p, !.role = role, !.arg = x] :
                     x \in Range(PickSide(inn, role))}
            ELSE {}
    IN (IF lobby /\ ~room.wants_tournament
        THEN {[Frame("sm_entry") EXCEPT !.user = p]} ELSE {})
       \cup
       (IF lobby /\ room.wants_tournament /\ room.tournament.phase = "none"
        THEN {[Frame("st_entry") EXCEPT !.user = p]} ELSE {})
       \cup
       (IF InMatch /\ room.toss_state.phase = "calling" /\ p = room.toss_state.caller
           /\ match.current_innings = 0
        THEN {[Frame("tc_entry") EXCEPT !.user = p]} ELSE {})
       \cup
       (IF InMatch /\ room.toss_state.phase = "choosing" /\ match.current_innings = 0
        THEN {[Frame("tz_entry") EXCEPT !.user = p, !.role = c] : c \in TossChoices}
        ELSE {})
       \cup
       (IF InMatch /\ a # 0 /\ obs.balls < MaxDeliveries
        THEN {[Frame("gm_entry") EXCEPT !.user = p, !.mv = x] :
                 x \in PlayMoves(IF p = Striker(inn) THEN "bat" ELSE "bowl")
                          \cup {MOVE_MAX + 1}}
        ELSE {})
       \cup picks("captain_bat") \cup picks("captain_bowl")
       \cup
       (IF InMatch /\ p = room.host /\ obs.started <= MaxMatches
        THEN {[Frame("cm_entry") EXCEPT !.user = p]} ELSE {})

\* The random draws of one run of a task: the move a countdown injects, the
\* moves of the CPU batter and bowler, the captain who calls the toss (1 for
\* side A, 2 for side B), the outcome of the call and the choice of a CPU that
\* won the toss.  has names the draws the run may make.
Draws(has, role) ==
    [has : {has},
     move : IF "move" \in has THEN PlayMoves(role) ELSE {0},
     c1 : IF "cpu" \in has THEN BatMoves ELSE {0},
     c2 : IF "cpu" \in has THEN BowlMoves ELSE {0},
     caller : IF "caller" \in has THEN {1, 2} ELSE {1},
     won : TossOutcomes,
     choice : IF "choice" \in has THEN TossChoices ELSE {"bat"}]

\* the draw a label consumes
DrawAt(pc) ==
    CASE pc = "cd_fire" -> "move"
      [] pc = "it_entry" -> "caller"
      [] pc \in {"cc_entry", "tc_entry"} -> "won"
      [] pc = "cz_entry" -> "choice"
      [] OTHER -> ""

\* random.choice([captain_a, captain_b]) of initiate_toss
DrawnCaller(w, ch) ==
    IF w.room.match = None THEN NoPlayer
    ELSE IF ch.caller = 1 THEN RoomMatch(w).side_a[1] ELSE RoomMatch(w).side_b[1]

\* a CPU move was placed in a run that draws none
Undrawn(w, r, ch) ==
    IF r.dicts # w.dicts /\ "cpu" \notin ch.has THEN [r EXCEPT !.obs.overflow = TRUE] ELSE r

\* the running task executes up to its next await
Step(w, ch) ==
    LET t == w.cur
        pc == Top(w, t).pc
        w0 == IF DrawAt(pc) \in {""} \cup ch.has THEN w
              ELSE [w EXCEPT !.obs.overflow = TRUE]
    IN CASE pc \in {"cd_fire", "cd_resolve", "cd_end"} -> Countdown(w0, t, ch.move)
         [] pc \in {"rp_entry", "rp_pick2", "rp_break", "rp_break2", "rp_auto",
                    "rp_next", "rp_true"} -> ResolvePendingBall(w0, t)
         [] pc \in {"gm_entry", "gm_after_cpu", "gm_after_res", "gm_end"} -> GameMove(w0, t)
         [] pc \in {"cm_entry", "cm_next", "cm_end"} -> CancelMatch(w0, t)
         [] pc \in {"ff_entry", "ff_next", "ff_end"} -> ForfeitMatchForNonResponse(w0, t)
         [] pc \in {"ct_fire", "ct_resume", "ct_auto", "ct_end"} -> CaptainTimeout(w0, t)
         [] pc \in {"sp_entry", "sp_auto", "sp_end"} -> StartCaptainPick(w0, t)
         [] pc \in {"tp_entry", "tp_bowl", "tp_end"} -> TriggerCaptainPicksIfNeeded(w0, t)
         [] pc \in {"hp_entry", "hp_auto", "hp_end"} -> HandlePick(w0, t)
         [] pc \in {"mc_entry", "mc_bat", "mc_bowl", "mc_end"} ->
              Undrawn(w0, MaybeCpuMove(w0, t, ch.c1, ch.c2), ch)
         [] pc \in {"hc_entry", "hc_apply", "hc_end"} -> HandleCpuCaptainPicks(w0, t)
         [] pc \in {"ap_entry", "ap_loop", "ap_resolve", "ap_after", "ap_exit"} ->
              Undrawn(w0, AutoPlayCpuMatch(w0, t, ch.c1, ch.c2), ch)
         [] pc \in {"it_entry", "it_cpu", "it_timer"} ->
              InitiateToss(w0, t, DrawnCaller(w0, ch))
         [] pc \in {"cc_entry", "cc_end"} -> CpuCallToss(w0, t, ch.won)
         [] pc \in {"cz_entry", "cz_go", "cz_end"} -> CpuChooseToss(w0, t, ch.choice)
         [] pc \in {"tc_entry", "tc_timer"} -> TossCall(w0, t, ch.won)
         [] pc \in {"tz_entry", "tz_go", "tz_timer", "tz_end"} -> TossChoice(w0, t)
         [] pc \in {"xc_fire", "xz_fire", "x_end"} -> CpuTossTimeout(w0, t)
         [] pc \in {"sm_entry", "sm_end"} -> StartMatch(w0, t)
         [] pc \in {"st_entry", "st_end"} -> StartTournament(w0, t)
         [] OTHER -> StartNextTournamentMatch(w0, t)

\* asyncio runs one task at a time: from the moment a task is resumed until
\* it awaits a sleep or ends, nothing else runs
RECURSIVE Run(_, _)
Run(w, ch) == IF w.cur = 0 THEN w ELSE Run(Step(w, ch), ch)

\* a websocket message of kind pc arrives and its handler runs up to its
\* first sleep
Receive(pc, has) ==
    /\ Quiet /\ ~Stopped
    /\ \E h \in HandlerIds :
          /\ tasks[h].st = "idle"
          /\ \E f \in {x \in Messages(room.clients[h]) : x.pc = pc}, ch \in Draws(has, "") :
                Commit(Run([W EXCEPT !.tasks[h] = [IdleTask EXCEPT !.st = "run",
                                                                   !.stack = <<f>>],
                                     !.cur = h, !.obs.run = NoRun], ch))

\* the sleeps that lead to a move being placed or a ball being resolved
BallLabels == {"cd_fire", "mc_bat", "mc_bowl", "ap_resolve", "ap_loop"}

\* The asyncio.sleep of a task suspended at one of the labels ends and the
\* task runs up to its next sleep.  A task that was cancelled inside the try
\* block of auto_play_cpu_match is resumed with CancelledError before
\* anything else happens: the finally block runs and the task ends.
Wake(labels, has) ==
    /\ cur = 0 /\ ~Stopped
    /\ \E t \in TaskIds :
          /\ tasks[t].st \in {"sleep", "dying"}
          /\ Top(W, t).pc \in labels
          /\ tasks[t].st = "sleep" =>
                /\ Quiet
                /\ tasks[t].after = {}
                /\ Top(W, t).pc \in BallLabels => obs.balls < MaxDeliveries
          /\ \E ch \in Draws(has, Top(W, t).role) :
                Commit(IF tasks[t].st = "dying"
                       THEN Finish([W EXCEPT !.room.cpu_autoplay = FALSE,
                                             !.obs.run = NoRun], t)
                       ELSE Run([NoLongerSleeping(W, t) EXCEPT !.tasks[t].st = "run",
                                                               !.tasks[t].dur = 0,
                                                               !.cur = t,
                                                               !.obs.run = NoRun], ch))

\* the messages of the clients
StartMatchMsg == Receive("sm_entry", {"caller"})
StartTournamentMsg == Receive("st_entry", {"caller"})
TossCallMsg == Receive("tc_entry", {"won", "choice"})
TossChoiceMsg == Receive("tz_entry", {})
GameMoveMsg == Receive("gm_entry", {})
CaptainPickMsg == Receive("hp_entry", {})
CancelMatchMsg == Receive("cm_entry", {})

\* the sleeps that end
BallCountdownExpires == Wake({"cd_fire"}, {"move"})
CaptainCountdownExpires == Wake({"ct_fire"}, {})
CpuTossTimeoutExpires == Wake({"xc_fire", "xz_fire"}, {"won", "choice"})
InningsBreakEnds == Wake({"rp_break"}, {})
NextMatchDelayEnds == Wake({"rp_next", "cm_next", "ff_next"}, {"caller"})
CpuMoveDelayEnds == Wake({"mc_bat", "mc_bowl"}, {"cpu"})
CpuPickDelayEnds == Wake({"hc_apply"}, {})
CpuTossDelayEnds == Wake({"it_cpu"}, {"won", "choice"})
FirstBallDelayEnds == Wake({"cz_go", "tz_go"}, {})
AutoPlayResumes == Wake({"ap_resolve", "ap_loop"}, {"cpu"})

Next ==
    \/ StartMatchMsg \/ StartTournamentMsg \/ TossCallMsg \/ TossChoiceMsg
    \/ GameMoveMsg \/ CaptainPickMsg \/ CancelMatchMsg
    \/ BallCountdownExpires \/ CaptainCountdownExpires \/ CpuTossTimeoutExpires
    \/ InningsBreakEnds \/ NextMatchDelayEnds \/ CpuMoveDelayEnds
    \/ CpuPickDelayEnds \/ CpuTossDelayEnds \/ FirstBallDelayEnds
    \/ AutoPlayResumes

Spec == Init /\ [][Next]_vars

NoOverflow == ~obs.overflow

\* ------------------------------------------------------------------------
\* Claims about the innings
\* ------------------------------------------------------------------------
\* result holds the dict returned by a resolve_ball call on an incomplete innings
IsBallResult(r) == r.ball_num > 0 /\ ~r.error

\* C1 (as stated): for all moves b, w of a ball resolved on an incomplete
\* innings: b = w gives a wicket with 0 runs; b = 0 and w = k > 0 gives k runs
\* and no wicket; b = k > 0 gives k runs whatever w is.
C1_AnyBowlMoveScores ==
    IsBallResult(result) =>
        /\ (result.bat_move = result.bowl_move => result.is_out /\ result.runs = 0)
        /\ (result.bat_move = 0 /\ result.bowl_move > 0
               => result.runs = result.bowl_move /\ ~result.is_out)
        /\ (result.bat_move > 0 => result.runs = result.bat_move)

\* C1 (amended): b = w gives a wicket with 0 runs; b = 0 and w = k > 0 gives
\* k runs and no wicket; b = k > 0 and w # b gives k runs and no wicket.
C1_ResolveRule ==
    IsBallResult(result) =>
        /\ (result.bat_move = result.bowl_move => result.is_out /\ result.runs = 0)
        /\ (result.bat_move = 0 /\ result.bowl_move > 0
               => result.runs = result.bowl_move /\ ~result.is_out)
        /\ (result.bat_move > 0 /\ result.bowl_move # result.bat_move
               => result.runs = result.bat_move /\ ~result.is_out)

\* a ball with a non-zero bat move against a different non-zero bowl move,
\* played on an innings that already has a ball in its log
C1_Witness ==
    /\ IsBallResult(result)
    /\ result.bat_move = 5 /\ result.bowl_move = 2 /\ result.runs = 5
    /\ Len(innings.ball_log) = 2

\* C2: after at least one ball an innings is complete exactly when the
\* wickets are exhausted, or the overs quota is met with no partial over, or
\* a target is set and reached; it is never complete without one of these,
\* and the ball that makes one of them true reports innings_complete.
C2_CompleteIff ==
    LET cond == \/ innings.wickets_fallen >= innings.total_wickets
                \/ (innings.overs_completed >= innings.total_overs
                      /\ innings.balls_in_over = 0)
                \/ (innings.target # None /\ innings.total_runs >= innings.target)
        n == Len(innings.ball_log)
    IN /\ (innings.is_complete => cond)
       /\ (n > 0 => (innings.is_complete <=> cond))
       /\ (n > 0 => (innings.ball_log[n].innings_complete <=> cond))
       /\ \A i \in 1..(n-1) : ~innings.ball_log[i].innings_complete

\* overs = 1, wickets = 1: one run, then a wicket that completes the innings
C2_Witness ==
    /\ innings.total_overs = 1 /\ innings.total_wickets = 1
    /\ Len(innings.ball_log) = 2
    /\ innings.ball_log[1].runs = 1 /\ ~innings.ball_log[1].is_out
    /\ innings.ball_log[2].is_out /\ innings.ball_log[2].innings_complete
    /\ innings.is_complete

\* a ball was resolved in this step of the innings
BallStep == Len(innings'.ball_log) = Len(innings.ball_log) + 1

\* two batters are at the crease: the innings has a non-striker, who is
\* another player than the striker
TwoAtCrease ==
    innings.non_striker_idx # None /\ innings.non_striker_idx # innings.striker_idx

\* the striker and the non-striker have changed ends in this step
EndsSwapped ==
    /\ innings'.striker_idx = innings.non_striker_idx
    /\ innings'.non_striker_idx = innings.striker_idx

CyclicNext(name) ==
    innings.bowling_side[(IndexOf(innings.bowling_side, name) % Len(innings.bowling_side)) + 1]

\* the last ball of the log
LastBall == innings.ball_log[Len(innings.ball_log)]

\* an over is completed by every sixth ball and by no other, and the bowler
\* of a ball that follows a ball in the same over is the same
OversOfSix ==
    /\ \A i \in 1..Len(innings.ball_log) :
          innings.ball_log[i].over_complete <=> innings.ball_log[i].ball_num % 6 = 0
    /\ \A i \in 1..(Len(innings.ball_log) - 1) :
          ~innings.ball_log[i].over_complete
             => innings.ball_log[i + 1].bowler = innings.ball_log[i].bowler

\* C15 (as stated): the bowler changes with every sixth ball and at no other
\* time, and the bowler of the next over is the player after the bowler of
\* the over just completed, in the cyclic order of the bowling side.
C15_RoundRobin ==
    Len(innings.ball_log) > 0 =>
        /\ OversOfSix
        /\ ~innings.needs_bowler_choice =>
              CurrentBowler(innings) = IF LastBall.over_complete
                                       THEN CyclicNext(LastBall.bowler)
                                       ELSE LastBall.bowler

\* C15 (amended): the bowler changes with every sixth ball and at no other
\* time.  Outside team mode the bowler of the next over is the player after
\* the last one in the cyclic order of the bowling side; in a team-mode
\* innings with several bowlers the completed over leaves the bowler in
\* place and asks for a captain's choice, and the bowler chosen is any
\* player of the bowling side but the one who bowled the over.
C15_BowlerPerOver ==
    Len(innings.ball_log) > 0 =>
        /\ OversOfSix
        /\ ~LastBall.over_complete => CurrentBowler(innings) = LastBall.bowler
        /\ LastBall.over_complete =>
              IF innings.is_team_mode /\ Len(innings.bowling_side) > 1
              THEN IF innings.needs_bowler_choice
                   THEN /\ CurrentBowler(innings) = LastBall.bowler
                        /\ innings.last_bowler = LastBall.bowler
                   ELSE CurrentBowler(innings) # LastBall.bowler
              ELSE CurrentBowler(innings) = CyclicNext(LastBall.bowler)

\* a team-mode innings of three bowlers: X bowled the first over and the
\* captain chose Z, not Y, for the second
C15_Witness ==
    /\ innings.is_team_mode /\ Len(innings.bowling_side) = 3
    /\ Len(innings.ball_log) = 6
    /\ LastBall.over_complete /\ LastBall.bowler = "X"
    /\ ~innings.needs_bowler_choice
    /\ CurrentBowler(innings) = "Z"


C17_NeverAllDisabled ==
    Len(AvailableNextBatters(innings)) > 0 =>
        \E i \in 1..Len(AvailableNextBatters(innings)) :
            ~AvailableNextBatters(innings)[i].disabled


\* C18: a complete innings is frozen.  It stays complete; a resolve_ball
\* call returns the error result; and no operation changes its score, its
\* wickets, its overs, its cards, its ball log or the batters and the bowler
\* in place.
C18_CompleteIsFrozen ==
    [][innings.is_complete =>
          /\ innings'.is_complete
          /\ result' # result => result' = ErrorResult
          /\ innings'.total_runs = innings.total_runs
          /\ innings'.wickets_fallen = innings.wickets_fallen
          /\ innings'.overs_completed = innings.overs_completed
          /\ innings'.balls_in_over = innings.balls_in_over
          /\ innings'.batting_cards = innings.batting_cards
          /\ innings'.bowling_cards = innings.bowling_cards
          /\ innings'.ball_log = innings.ball_log
          /\ innings'.striker_idx = innings.striker_idx
          /\ innings'.non_striker_idx = innings.non_striker_idx
          /\ innings'.current_bowler_idx = innings.current_bowler_idx]_vars


\* ------------------------------------------------------------------------
\* Claims about the room
\* ------------------------------------------------------------------------
\* the countdown tasks that are armed: created and not yet expired
ArmedCountdowns(kinds) ==
    {t \in TimerIds : /\ tasks[t].st = "sleep"
                      /\ Len(tasks[t].stack) = 1
                      /\ tasks[t].stack[1].pc = "cd_fire"
                      /\ tasks[t].stack[1].role \in kinds}

\* C3: every delivery is resolved at most once, whatever the interleaving of
\* GAME_MOVE handlers, countdown expiries, CPU moves and the auto-play loop:
\* no ball is resolved with a move placed for another delivery, no run of a
\* task resolves two balls, no countdown injects a move for a delivery other
\* than the one it was armed for, and while a human's move for a role is in
\* the pending map no countdown of that role is armed.
C3_ResolvedOnce ==
    /\ ~obs.stale
    /\ ~obs.misfire
    /\ obs.run.resolved <= 1
    /\ \A role \in {"bat", "bowl"} :
          Pending(W)[role].present /\ Pending(W)[role].src = "human"
             => ArmedCountdowns({role}) = {}

\* the bowler's countdown expires after the striker's GAME_MOVE was accepted
\* and resolves the ball with the human's move and the injected one
C3_Witness ==
    /\ obs.run.kind = "bowl"
    /\ obs.run.resolved = 1
    /\ obs.run.srcs = <<"human", "auto">>

\* the delivery that is being played: the next ball of the active innings
CurrentDelivery ==
    IF InMatch /\ ActiveInnings(RoomMatch(W)) # 0
    THEN Delivery(W, room.match, ActiveInnings(RoomMatch(W)))
    ELSE NoDelivery

\* resolve_pending_ball called by handler h, one level below a caller that
\* had TRUE as its last return value
ResolveProbe(h) ==
    [W EXCEPT !.cur = h,
              !.tasks[h] = [IdleTask EXCEPT
                               !.st = "run", !.ret = TRUE,
                               !.stack = <<Frame("caller"),
                                           ResolveFrame(IF InMatch THEN room.match ELSE 0,
                                                        CurrentDelivery[2])>>]]

\* C4: the pending map holds at most one entry per role under the keys
\* "bat" and "bowl" only; resolve_pending_ball resolves a ball only when both
\* entries are present, and otherwise returns false and changes nothing; the
\* moves of a resolved ball are gone from the map before the resolving task
\* suspends and before a countdown for the next delivery is armed.
C4_PendingMap ==
    /\ DOMAIN Pending(W) = {"bat", "bowl"}
    /\ ~obs.half
    /\ ~obs.late
    /\ \A role \in {"bat", "bowl"} :
          obs.run.resolved > 0 /\ Pending(W)[role].present
             => Pending(W)[role].del # obs.run.del
    /\ \A h \in HandlerIds :
          tasks[h].st = "idle" /\ Quiet
          /\ ~(Has(W, room.pending_moves, "bat") /\ Has(W, room.pending_moves, "bowl"))
             => ResolvePendingBall(ResolveProbe(h), h)
                   = [ResolveProbe(h) EXCEPT !.tasks[h].stack = <<Frame("caller")>>,
                                             !.tasks[h].ret = FALSE]

\* a ball has just been resolved: the map is empty and the countdowns of
\* the next delivery are armed
C4_Witness ==
    /\ obs.run.resolved = 1
    /\ InMatch
    /\ ~Pending(W).bat.present /\ ~Pending(W).bowl.present
    /\ \E t \in ArmedCountdowns({"bat", "bowl"}) :
          tasks[t].stack[1].mv = 1 /\ room.pending_timeouts[tasks[t].stack[1].role] = t

\* the handlers that sleep through the innings break of the room's match
InBreak ==
    {t \in TaskIds : /\ tasks[t].st = "sleep"
                     /\ Top(W, t).pc = "rp_break"
                     /\ Top(W, t).mm = room.match}

\* the human whose move the room waits for in a role has a countdown armed
\* under the role's key
CountdownsArmed ==
    LET inn == Inn(W, room.match, ActiveInnings(RoomMatch(W)))
        player(role) == IF role = "bat" THEN Striker(inn) ELSE CurrentBowler(inn)
    IN \A role \in {"bat", "bowl"} :
          ~IsCpu(room, player(role)) /\ ~Pending(W)[role].present
             => room.pending_timeouts[role] \in ArmedCountdowns({role})

\* C5: when the countdown of a human striker or bowler expires with the
\* slot empty, a move in 0..6 is injected and exactly one strike is
\* recorded; unless that strike forfeits the match, play resumes: with the
\* other slot still empty the injected move waits in the map, and with both
\* slots filled the delivery is resolved and the same task goes on to
\* announce the state and arm the countdowns of the next delivery, or to
\* start and announce the next innings.
C5_TimeoutResumesPlay ==
    obs.run.kind \in {"bat", "bowl"} /\ obs.ended # "forfeit" =>
        /\ obs.run.move \in Moves
        /\ obs.run.struck = 1
        /\ obs.run.resolved = 0 =>
              /\ Pending(W)[obs.run.kind].present
              /\ Pending(W)[obs.run.kind].src = "auto"
              /\ ~(Pending(W).bat.present /\ Pending(W).bowl.present)
        /\ obs.run.resolved > 0 /\ InMatch =>
              /\ RoomMatch(W).announced = RoomMatch(W).current_innings
                    \/ InBreak # {}
              /\ /\ RoomMatch(W).announced = RoomMatch(W).current_innings
                 /\ ~Inn(W, room.match, ActiveInnings(RoomMatch(W))).needs_batter_choice
                 /\ ~Inn(W, room.match, ActiveInnings(RoomMatch(W))).needs_bowler_choice
                 => CountdownsArmed

\* the tasks that will start the next match of the tournament
StartingNextMatch ==
    {t \in TaskIds : /\ tasks[t].st = "sleep"
                     /\ Top(W, t).pc \in {"rp_next", "cm_next", "ff_next"}}

\* C6: a third ball-pick timeout in a row of a player forfeits the match to
\* the opposing side: the match is finished with the side the offender is
\* not on as winner, the room's match is cleared and, in a tournament, the
\* next match is started (after the delay the forfeiting task sleeps
\* through).
C6_ThirdTimeoutForfeits ==
    /\ \A p \in AllPlayers :
          obs.miss[p] >= MAX_AUTO_STRIKES
             => obs.ended = "forfeit" /\ obs.forfeit.offender = p
    /\ obs.ended = "forfeit" =>
          /\ obs.forfeit.winner # << >>
          /\ obs.forfeit.offender \notin Range(obs.forfeit.winner)
          /\ room.match = None
          /\ room.tournament.phase # "none" => StartingNextMatch # {}

\* C7: a match is forfeited only after three ball-pick timeouts in a row of
\* the offender, with no accepted move of theirs in between: strikes from
\* captain-pick timeouts, and ball-pick timeouts separated by a timely move,
\* never add up to a forfeit.
C7_ForfeitOnlyAfterThreeInARow ==
    obs.forfeit.offender # NoPlayer => obs.forfeit.row >= MAX_AUTO_STRIKES

\* the candidate a captain's timeout is to pick from a list of options: the
\* first one that is not disabled, or the first one if all are disabled
FirstCandidate(options) ==
    IF \E i \in 1..Len(options) : ~options[i].disabled
    THEN options[Min({i \in 1..Len(options) : ~options[i].disabled})].player
    ELSE options[1].player

\* C8: a captain-pick timeout only picks the first enabled candidate (the
\* first candidate if none is enabled) and records one strike for the
\* captain; whatever the strike count, it leaves the room's match in place
\* and finishes or forfeits no match.
C8_CaptainTimeoutOnlyPicks ==
    [][obs'.run.kind \in {"captain_bat", "captain_bowl"} =>
          /\ obs'.run.pick =
                FirstCandidate(IF obs'.run.kind = "captain_bat"
                               THEN AvailableNextBatters(
                                        Inn(W, obs'.run.at[1], obs'.run.at[2]))
                               ELSE AvailableNextBowlers(
                                        Inn(W, obs'.run.at[1], obs'.run.at[2])))
          /\ obs'.run.struck = 1
          /\ room'.auto_move_strikes[obs'.run.user]
                = room.auto_move_strikes[obs'.run.user] + 1
          /\ room'.match = room.match
          /\ ~matches'[room'.match].is_finished
          /\ matches'[obs'.run.at[1]].is_finished = matches[obs'.run.at[1]].is_finished
          /\ obs'.forfeit = obs.forfeit /\ obs'.ended = obs.ended]_vars

\* a captain's timeout has just recorded the captain's third strike, or a
\* later one, and the match goes on
C8_Witness ==
    /\ obs.run.kind \in {"captain_bat", "captain_bowl"}
    /\ room.auto_move_strikes[obs.run.user] >= MAX_AUTO_STRIKES
    /\ InMatch /\ ~RoomMatch(W).is_finished

\* the timers that are armed: tasks created for a timeout that are still
\* in their first sleep
ArmedTimers ==
    {t \in TimerIds : /\ tasks[t].st = "sleep"
                      /\ Len(tasks[t].stack) = 1
                      /\ tasks[t].stack[1].pc \in {"cd_fire", "ct_fire", "xc_fire", "xz_fire"}}

\* C9: every armed timer is tracked in the room's timeout map under its
\* role key, and since arming a timer under a key cancels the timer that
\* was under it, at most one timer is armed per key.
C9_TimersTracked ==
    /\ \A t \in ArmedTimers :
          \E k \in TimeoutKeys :
             /\ room.pending_timeouts[k] = t
             /\ tasks[t].stack[1].pc \in {"cd_fire", "ct_fire"} => tasks[t].stack[1].role = k
    /\ \A k \in TimeoutKeys :
          Cardinality({t \in ArmedTimers : tasks[t].stack[1].role = k}) <= 1

\* C10: once a match has ended, by completion, by the host's cancellation or
\* by forfeiture, no countdown is armed: the timeout map is empty after the
\* teardown, and no handler that was suspended at the time arms a countdown
\* for the ended match afterwards.
C10_NoCountdownAfterEnd ==
    room.match = None =>
        /\ \A k \in TimeoutKeys : room.pending_timeouts[k] \in {NoTask, DoneTask}
        /\ \A t \in ArmedTimers : tasks[t].stack[1].pc \notin {"cd_fire", "ct_fire"}

\* C11: CPU-controlled roles bypass the timers: no armed ball-pick or
\* captain-pick countdown is for a CPU player, no timeout injects a move or
\* a pick on behalf of a CPU player, and the strike counter of every CPU
\* player stays at zero.
C11_CpuBypassesTimers ==
    /\ \A t \in ArmedTimers :
          tasks[t].stack[1].pc \in {"cd_fire", "ct_fire"}
             => ~IsCpu(room, tasks[t].stack[1].user)
    /\ obs.run.kind # "" => ~IsCpu(room, obs.run.user)
    /\ \A p \in AllPlayers : IsCpu(room, p) => room.auto_move_strikes[p] = 0

\* a CPU is on strike against a human bowler: a countdown is armed for the
\* bowler and none for the striker
C11_Witness ==
    /\ InMatch /\ ActiveInnings(RoomMatch(W)) # 0
    /\ IsCpu(room, Striker(RoomMatch(W).inns[ActiveInnings(RoomMatch(W))]))
    /\ ArmedCountdowns({"bowl"}) # {}
    /\ ArmedCountdowns({"bat"}) = {}
    /\ room.pending_timeouts["bat"] = NoTask

\* a CPU is the striker or the bowler of the delivery being played, no
\* captain choice is pending, and the CPU's slot of the pending map is empty
CpuSlotEmpty ==
    /\ InMatch /\ ~RoomMatch(W).is_finished
    /\ ActiveInnings(RoomMatch(W)) # 0
    /\ LET inn == RoomMatch(W).inns[ActiveInnings(RoomMatch(W))]
       IN /\ ~inn.is_complete
          /\ ~inn.needs_batter_choice /\ ~inn.needs_bowler_choice
          /\ \/ IsCpu(room, Striker(inn)) /\ ~Pending(W)["bat"].present
             \/ IsCpu(room, CurrentBowler(inn)) /\ ~Pending(W)["bowl"].present

\* C12: a CPU's empty slot is filled without a message of a human: while
\* the slot is empty some task other than a human's countdown is on its way
\* (asleep in a delay of the orchestrator) to place the CPU's move.
C12_CpuMoveUnprompted ==
    CpuSlotEmpty =>
        \E t \in TaskIds : tasks[t].st = "sleep" /\ t \notin ArmedTimers

\* the GAME_MOVE messages the client of handler h may send now
GameMoveFrames(h) == {x \in Messages(room.clients[h]) : x.pc = "gm_entry"}

\* a GAME_MOVE that is to be ignored: its move is out of range, its sender
\* is neither the striker nor the bowler, or the sender's slot is filled
OutOfTurn(f) ==
    LET inn == RoomMatch(W).inns[ActiveInnings(RoomMatch(W))]
    IN \/ f.mv \notin Moves
       \/ f.user \notin {Striker(inn), CurrentBowler(inn)}
       \/ f.user = Striker(inn) /\ Pending(W)["bat"].present
       \/ f.user = CurrentBowler(inn) /\ Pending(W)["bowl"].present

\* the room after handler h has received message f and run to its first
\* sleep or to its end
AfterMessage(h, f) ==
    Collect(Run([W EXCEPT !.tasks[h] = [IdleTask EXCEPT !.st = "run", !.stack = <<f>>],
                          !.cur = h, !.obs.run = NoRun],
                CHOOSE ch \in Draws({}, "") : TRUE))

\* C13: a GAME_MOVE with a move outside 0..6, from a player who is not the
\* striker or the bowler, or for a slot that is filled, changes nothing: the
\* room (pending moves, timers, strike counters), the matches and their
\* innings and the tasks are as before, and no ball is resolved.
C13_BadMoveIgnored ==
    \A h \in HandlerIds :
        tasks[h].st = "idle" /\ Quiet /\ ~Stopped =>
            \A f \in GameMoveFrames(h) :
                OutOfTurn(f) =>
                    /\ AfterMessage(h, f).room = room
                    /\ AfterMessage(h, f).matches = matches
                    /\ AfterMessage(h, f).dicts = dicts
                    /\ AfterMessage(h, f).tasks = tasks
                    /\ AfterMessage(h, f).obs.balls = obs.balls


\* the two main innings of match m are complete with the sides level
MainInningsLevel(m) ==
    /\ matches[m].slot[1] # 0 /\ matches[m].slot[2] # 0
    /\ matches[m].inns[matches[m].slot[2]].is_complete
    /\ matches[m].inns[matches[m].slot[1]].total_runs
          = matches[m].inns[matches[m].slot[2]].total_runs

\* C19 (as stated): a match whose second innings completed with both sides
\* on equal runs goes on to a super over (innings 3 exists, of 1 over and
\* 2 wickets, batted by the side that batted second) and is not ended by
\* that ball.
C19_TiePlaysSuperOver ==
    \A m \in DOMAIN matches :
        MainInningsLevel(m) =>
            /\ matches[m].slot[3] # 0
            /\ matches[m].inns[matches[m].slot[3]].total_overs = 1
            /\ matches[m].inns[matches[m].slot[3]].total_wickets = 2
            /\ matches[m].inns[matches[m].slot[3]].batting_side = matches[m].bowling_first
            /\ matches[m].winner # Tie \/ matches[m].is_super_over


\* match m was ended by determine_result after its two main innings
MainResult(m) ==
    ~matches[m].is_super_over /\ matches[m].result_text \in {"wickets", "runs", "tied"}

FirstTotal(m) == matches[m].inns[matches[m].slot[1]].total_runs
SecondTotal(m) == matches[m].inns[matches[m].slot[2]].total_runs

\* C20: a match ended by determine_result after the two main innings is
\* finished with a non-empty winner; with the greater second-innings total
\* the side batting second wins by total_wickets minus the wickets fallen in
\* innings 2, with the smaller one the side batting first wins by the run
\* difference, and on equal totals the winner is TIE.
C20_MainResult ==
    \A m \in DOMAIN matches :
        MainResult(m) =>
            /\ matches[m].is_finished
            /\ matches[m].winner # NoWinner
            /\ SecondTotal(m) > FirstTotal(m) =>
                  /\ matches[m].winner = matches[m].bowling_first
                  /\ matches[m].result_text = "wickets"
                  /\ matches[m].margin = matches[m].total_wickets
                        - matches[m].inns[matches[m].slot[2]].wickets_fallen
            /\ SecondTotal(m) < FirstTotal(m) =>
                  /\ matches[m].winner = matches[m].batting_first
                  /\ matches[m].result_text = "runs"
                  /\ matches[m].margin = FirstTotal(m) - SecondTotal(m)
            /\ SecondTotal(m) = FirstTotal(m) =>
                  /\ matches[m].winner = Tie
                  /\ matches[m].result_text = "tied"

\* a chase won with a wicket down and wickets in hand
C20_Witness ==
    \E m \in DOMAIN matches :
        /\ MainResult(m) /\ matches[m].is_finished
        /\ SecondTotal(m) > FirstTotal(m)
        /\ matches[m].winner = matches[m].bowling_first
        /\ matches[m].inns[matches[m].slot[2]].wickets_fallen > 0
        /\ matches[m].margin > 0


\* ------------------------------------------------------------------------
\* Claims about net run rate and the tournament standings
\* ------------------------------------------------------------------------
BallsFaced(inn) == inn.overs_completed * 6 + inn.balls_in_over
AllOutEarly(inn) ==
    inn.wickets_fallen >= inn.total_wickets /\ BallsFaced(inn) < 6 * inn.total_overs

\* C21: get_nrr_data reports for each main innings of a match the innings
\* total as runs and, as overs faced, the full quota when the side was all
\* out before using it and the balls bowled divided by 6 otherwise (both in
\* sixths of an over).
C21_OfficialOvers ==
    \A m \in DOMAIN matches :
        matches[m].slot[2] # 0 =>
            LET first == matches[m].inns[matches[m].slot[1]]
                second == matches[m].inns[matches[m].slot[2]]
                nrr == GetNrrData(matches[m])
            IN /\ nrr.runs_scored_1 = first.total_runs
               /\ nrr.runs_scored_2 = second.total_runs
               /\ nrr.overs_faced_1 = IF AllOutEarly(first) THEN 6 * first.total_overs
                                      ELSE BallsFaced(first)
               /\ nrr.overs_faced_2 = IF AllOutEarly(second) THEN 6 * second.total_overs
                                      ELSE BallsFaced(second)

\* a first innings all out on its first ball, reported as a full over, and
\* a second innings under way, reported by its balls
C21_Witness ==
    \E m \in DOMAIN matches :
        /\ matches[m].slot[2] # 0
        /\ AllOutEarly(matches[m].inns[matches[m].slot[1]])
        /\ BallsFaced(matches[m].inns[matches[m].slot[1]]) = 1
        /\ GetNrrData(matches[m]).overs_faced_1 = 6
        /\ ~AllOutEarly(matches[m].inns[matches[m].slot[2]])
        /\ GetNrrData(matches[m]).overs_faced_2 = 1


\* the net-run-rate accumulators of a standings entry
Rates(e) == <<e.runs_scored, e.overs_faced, e.runs_conceded, e.overs_bowled>>

\* this step ends the match of the room by forfeit, in a tournament
ForfeitStep ==
    /\ room.match # None /\ room'.match = None
    /\ room.tournament.phase # "none"
    /\ ~matches[room.match].is_finished
    /\ obs'.ended = "forfeit"

\* C22 (as stated): a match that ends by forfeit is marked NRR-locked, and
\* applying its result to the standings leaves runs scored, overs faced,
\* runs conceded and overs bowled of both players unchanged.
C22_ForfeitExemptFromNrr ==
    [][ForfeitStep =>
          /\ room.match \in DOMAIN matches' => matches'[room.match].nrr_locked
          /\ \A p \in DOMAIN room.tournament.standings :
                Rates(room'.tournament.standings[p]) = Rates(room.tournament.standings[p])]_vars


\* this step ends the match of the room by determine_result, in the group
\* phase of a tournament
GroupResultStep ==
    /\ room.match # None /\ room'.match = None
    /\ room.tournament.phase = "group"
    /\ ~matches[room.match].is_finished
    /\ obs'.ended = "completed"
    /\ room.match \in DOMAIN matches'

\* C28 (as stated): when the result of a group match is applied, both
\* players' played count rises by 1 and the schedule advances by one match;
\* a win gives the winner one win and 2 points and the loser one loss and no
\* points; a tied match gives each player one tie and 1 point.
C28_GroupPoints ==
    [][GroupResultStep =>
          LET match == matches'[room.match]
              a == match.side_a[1]
              b == match.side_b[1]
              old == room.tournament.standings
              new == room'.tournament.standings
              win(p) == [old[p] EXCEPT !.played = @ + 1, !.won = @ + 1, !.points = @ + 2]
              loss(p) == [old[p] EXCEPT !.played = @ + 1, !.lost = @ + 1]
              tie(p) == [old[p] EXCEPT !.played = @ + 1, !.tied = @ + 1, !.points = @ + 1]
              same(e, f) == [e EXCEPT !.runs_scored = 0, !.overs_faced = 0,
                                      !.runs_conceded = 0, !.overs_bowled = 0]
                            = [f EXCEPT !.runs_scored = 0, !.overs_faced = 0,
                                        !.runs_conceded = 0, !.overs_bowled = 0]
          IN /\ room'.tournament.current_group_match_idx
                   = room.tournament.current_group_match_idx + 1
             /\ match.winner = <<a>> => same(new[a], win(a)) /\ same(new[b], loss(b))
             /\ match.winner = <<b>> => same(new[b], win(b)) /\ same(new[a], loss(a))
             /\ match.winner = Tie => same(new[a], tie(a)) /\ same(new[b], tie(b))]_vars


\* the sum of two tuples of net-run-rate accumulators
AddRates(r, q) == <<r[1] + q[1], r[2] + q[2], r[3] + q[3], r[4] + q[4]>>

\* the standings list is in descending order of points, then net run rate
SortedByPointsThenNrr(t) ==
    LET order == GetSortedStandings(t)
    IN \A k \in 1..(Len(order) - 1) :
          ~SortsBefore(t.standings[order[k + 1]], t.standings[order[k]])

\* C29 (as stated): record_group_result credits the first-innings figures as
\* scored and faced to the player who batted first and as conceded and
\* bowled to the other, and the second-innings figures the other way round,
\* where player_a batted first unless nrr_data names player_b; after A's 50
\* in 5 overs against B's 40 in 5 overs with no player named, A's net run
\* rate is +2 and B's is -2; the standings are sorted by points, then by
\* net run rate, both descending.
C29_FirstInningsToBatter ==
    /\ SortedByPointsThenNrr(room.tournament)
    /\ room.tournament.current_group_match_idx < Len(room.tournament.group_matches) =>
          \A c \in GroupCalls(room.tournament) :
              LET after == RecordGroupResult(room.tournament, c[1], c[2], c[3], c[4])
                  nrr == c[4]
                  first == IF nrr.batting_first_player = c[2] THEN c[2] ELSE c[1]
                  second == IF first = c[1] THEN c[2] ELSE c[1]
                  fresh == room.tournament.standings[c[1]].played = 0
                           /\ room.tournament.standings[c[2]].played = 0
              IN /\ Rates(after.standings[first])
                      = AddRates(Rates(room.tournament.standings[first]),
                                 <<nrr.runs_scored_1, nrr.overs_faced_1,
                                   nrr.runs_scored_2, nrr.overs_faced_2>>)
                 /\ Rates(after.standings[second])
                      = AddRates(Rates(room.tournament.standings[second]),
                                 <<nrr.runs_scored_2, nrr.overs_faced_2,
                                   nrr.runs_scored_1, nrr.overs_faced_1>>)
                 /\ fresh /\ nrr = NrrData(50, 30, 40, 30, NoPlayer) =>
                       /\ Nrr(after.standings[c[1]])[1] = 2 * Nrr(after.standings[c[1]])[2]
                       /\ Nrr(after.standings[c[2]])[1] = (0 - 2) * Nrr(after.standings[c[2]])[2]
                 /\ SortedByPointsThenNrr(after)

\* ------------------------------------------------------------------------
\* Claims about the learning pipeline
\* ------------------------------------------------------------------------
\* the unprocessed items that have fewer than BATCH_LIMIT unprocessed items
\* before them
Eligible(queue) ==
    {i \in 1..Len(queue) :
        /\ ~queue[i].processed
        /\ Cardinality({j \in 1..(i - 1) : ~queue[j].processed}) < BATCH_LIMIT}

\* C23: each item of the learning queue is consumed exactly once. A batch
\* takes the first unprocessed items in id order, at most 10 of them; every
\* item it takes ends processed, whether its update succeeded or raised, so
\* a failure does not keep the following items of the batch from being
\* processed; and an item that is processed is never taken again.
C23_ConsumedOnce ==
    [][LET queue == learning.db.queue
           after == learning'.db.queue
       IN /\ Len(after) >= Len(queue)
          /\ \A i \in 1..Len(queue) :
                /\ queue[i].taken = (IF queue[i].processed THEN 1 ELSE 0)
                /\ queue[i].processed => after[i] = queue[i]
                /\ Len(after) > Len(queue) => after[i] = queue[i]
                /\ Len(after) = Len(queue) =>
                      IF i \in Eligible(queue)
                      THEN after[i].processed /\ after[i].taken = 1
                      ELSE after[i] = queue[i]]_vars

\* a batch of ten has been processed with an eleventh item waiting behind
\* it, an update raised and the item after it was processed
C23_Witness ==
    LET queue == learning.db.queue
    IN /\ Len(queue) > BATCH_LIMIT
       /\ \A i \in 1..BATCH_LIMIT : queue[i].processed
       /\ ~queue[BATCH_LIMIT + 1].processed
       /\ \E i \in 1..(BATCH_LIMIT - 1) :
             /\ queue[i].failed
             /\ queue[i + 1].processed /\ ~queue[i + 1].failed

\* the frequency vectors stored in the database, each with its sample count
StoredVectors(db) ==
    {<<db.global_pattern[k].freqs, db.global_pattern[k].total_samples>> :
        k \in DOMAIN db.global_pattern}
    \cup {<<db.user_profile[k].bat_freqs, db.user_profile[k].total_balls_faced>> :
            k \in DOMAIN db.user_profile}
    \cup {<<db.user_profile[k].bowl_freqs, db.user_profile[k].total_balls_bowled>> :
            k \in DOMAIN db.user_profile}
    \cup {<<db.situational_pattern[k].freqs, db.situational_pattern[k].sample_count>> :
            k \in DOMAIN db.situational_pattern}
    \cup {<<db.sequence_pattern[k].freqs, db.sequence_pattern[k].sample_count>> :
            k \in DOMAIN db.sequence_pattern}

SumsToOne(f) == Total(f[1]) = f[2]

\* the processed balls of the log in which user_id has the role of field
ProcessedBalls(db, field, user_id) ==
    {i \in 1..Len(db.log) : db.queue[i].processed /\ db.log[i][field] = user_id}

\* C24: after any sequence of learning updates every stored frequency
\* vector with at least one sample sums to 1. A vector with one sample is
\* one-hot; an update of any stored vector by any move, under any of the
\* three caps, sums to 1 and counts one sample more; and the global patterns
\* and the user profiles have counted one sample for each processed ball.
C24_FrequenciesSumToOne ==
    LET db == learning.db
    IN /\ \A v \in StoredVectors(db) :
             /\ v[2] >= 1 => SumsToOne(v[1])
             /\ v[2] = 1 => \E move \in 0..MOVE_MAX : v[1] = OneHot(move)
             /\ v[2] >= 1 =>
                   \A move \in 0..MOVE_MAX,
                      cap \in {MAX_SAMPLES_GLOBAL, MAX_SAMPLES_USER, MAX_SAMPLES_SITUATIONAL} :
                      /\ SumsToOne(ExponentialMovingAverageUpdate(v[1], move, v[2], cap).freqs)
                      /\ ExponentialMovingAverageUpdate(v[1], move, v[2], cap).samples = v[2] + 1
       /\ \A role \in DOMAIN db.global_pattern :
             db.global_pattern[role].total_samples
                = Cardinality({i \in 1..Len(db.queue) : db.queue[i].processed})
       /\ \A user_id \in DOMAIN db.user_profile :
             /\ db.user_profile[user_id].total_balls_faced
                   = Cardinality(ProcessedBalls(db, "batter_user_id", user_id))
             /\ db.user_profile[user_id].total_balls_bowled
                   = Cardinality(ProcessedBalls(db, "bowler_user_id", user_id))

\* a situational pattern that has more samples than its cap and holds a
\* mixture of two moves: its last update ran with alpha = 1/cap
C24_Witness ==
    \E k \in DOMAIN learning.db.situational_pattern :
        /\ learning.db.situational_pattern[k].sample_count > MAX_SAMPLES_SITUATIONAL
        /\ learning.db.situational_pattern[k].freqs[2] = MAX_SAMPLES_SITUATIONAL
        /\ SumsToOne(learning.db.situational_pattern[k].freqs)

\* ------------------------------------------------------------------------
\* Claims about the learning phase
\* ------------------------------------------------------------------------
ExpectedPhase(n) ==
    IF n < 60 THEN "global" ELSE IF n < 300 THEN "transition" ELSE "personalized"

\* C25: for every count n >= 0 of tracked balls the learning phase is global
\* when n < 60, transition when 60 <= n < 300 and personalized when
\* n >= 300, in get_learning_phase of the strategy engine and in
\* calculate_learning_phase of the pipeline alike.
C25_PhaseBoundaries ==
    /\ learning.pipeline # NoCall =>
          learning.pipeline.phase = ExpectedPhase(learning.total_balls)
    /\ learning.engine # NoCall =>
          learning.engine.phase = ExpectedPhase(learning.total_balls)

\* both functions have been applied to 60 balls, the first count of the
\* transition phase
C25_Witness ==
    /\ learning.total_balls = 60
    /\ learning.pipeline # NoCall /\ learning.pipeline.phase = "transition"
    /\ learning.engine # NoCall /\ learning.engine.phase = "transition"

\* the confidence of calculate_learning_phase is a number of thousandths
Thousandths(c) == <<c, 1000>>

\* confidence always lies in [0, 0.95]
ConfidenceInRange ==
    /\ learning.pipeline # NoCall =>
          /\ AtMost(<<0, 1>>, Thousandths(learning.pipeline.confidence))
          /\ AtMost(Thousandths(learning.pipeline.confidence), <<95, 100>>)
    /\ learning.engine # NoCall =>
          /\ AtMost(<<0, 1>>, learning.engine.confidence)
          /\ AtMost(learning.engine.confidence, <<95, 100>>)

\* C26: within each learning phase the confidence is strictly increasing in
\* the ball count (for n and n + 1 of the same phase, confidence(n + 1) >
\* confidence(n)), and the confidence always lies in [0, 0.95].
C26_ConfidenceIncreasing ==
    /\ ConfidenceInRange
    /\ learning.pipeline # NoCall
          /\ CalculateLearningPhase(learning.total_balls + 1).phase = learning.pipeline.phase
          => CalculateLearningPhase(learning.total_balls + 1).confidence
                > learning.pipeline.confidence
    /\ learning.engine # NoCall
          /\ GetLearningPhase(learning.total_balls + 1).phase = learning.engine.phase
          => LessThan(learning.engine.confidence,
                      GetLearningPhase(learning.total_balls + 1).confidence)

\* ------------------------------------------------------------------------
\* Claims about the CPU's pick
\* ------------------------------------------------------------------------
\* C27: every move the CPU submits is an integer in 0..6. select_move
\* returns a value in 0..6 for every combination of pattern inputs, with
\* all-uniform, all-zero and missing data among them, and so do the fallback
\* paths of cpu_pick_move: no match, no known opponent, an exception of the
\* engine.
C27_MoveInRange ==
    learning.move # NoCall => learning.move.value \in 0..MOVE_MAX

\* select_move has answered from all-zero pattern rows with a move other
\* than the first and the last
C27_Witness ==
    /\ learning.move # NoCall
    /\ learning.move.by = "select_move"
    /\ learning.db = DegenerateDb(ZeroFreqs, 450)
    /\ learning.pick.user_id = 1
    /\ learning.move.value \in 1..(MOVE_MAX - 1)

\* ------------------------------------------------------------------------
\* Claims about the captain choices
\* ------------------------------------------------------------------------
\* the active innings of the room's match waits for a captain's choice
ChoicePending ==
    /\ InMatch
    /\ ActiveInnings(RoomMatch(W)) # 0
    /\ \/ Inn(W, room.match, ActiveInnings(RoomMatch(W))).needs_batter_choice
       \/ Inn(W, room.match, ActiveInnings(RoomMatch(W))).needs_bowler_choice

RoomInnings == UNION {Range(matches[m].inns) : m \in DOMAIN matches}

\* the striker index is valid and the non-striker index is absent or a valid
\* index of another player
DistinctEnds(inn) ==
    /\ inn.striker_idx \in 1..Len(inn.batting_side)
    /\ \/ inn.non_striker_idx = None
       \/ /\ inn.non_striker_idx \in 1..Len(inn.batting_side)
          /\ inn.non_striker_idx # inn.striker_idx

\* C33 (as stated): in every reachable innings of the room, after any
\* deliveries, wickets, picks of a captain (human, CPU or timeout) and
\* auto-advances, striker_idx is a valid index of the batting side and
\* non_striker_idx is absent or a valid index different from striker_idx.
C33_StrikerIsNotNonStriker == \A inn \in RoomInnings : DistinctEnds(inn)

RECURSIVE SumOver(_, _)
\* sum(f(x) for x in S)
SumOver(F(_), S) ==
    IF S = {} THEN 0
    ELSE LET x == CHOOSE y \in S : TRUE IN F(x) + SumOver(F, S \ {x})

\* the books of an innings: the counters are in range, the total is the sum
\* of the batting cards and of the bowling cards, the wickets are those of
\* the bowling cards, and the ball log has one entry per ball bowled,
\* numbered from 1
BooksBalance(inn) ==
    /\ 0 <= inn.wickets_fallen /\ inn.wickets_fallen <= inn.total_wickets
    /\ 0 <= inn.balls_in_over /\ inn.balls_in_over < BALLS_PER_OVER
    /\ inn.total_runs = SumOver(LAMBDA n : inn.batting_cards[n].runs, Range(inn.batting_side))
    /\ inn.total_runs = SumOver(LAMBDA n : inn.bowling_cards[n].runs_conceded,
                                Range(inn.bowling_side))
    /\ inn.wickets_fallen = SumOver(LAMBDA n : inn.bowling_cards[n].wickets,
                                    Range(inn.bowling_side))
    /\ Len(inn.ball_log) = inn.overs_completed * BALLS_PER_OVER + inn.balls_in_over
    /\ \A k \in 1..Len(inn.ball_log) : inn.ball_log[k].ball_num = k

\* the log after a step is the log before it, or that log with one more entry
AppendOnly(before, after) ==
    /\ Len(after) \in {Len(before), Len(before) + 1}
    /\ SubSeq(after, 1, Len(before)) = before

\* C39: after any sequence of deliveries (and picks) in an innings,
\* 0 <= wickets_fallen <= total_wickets and 0 <= balls_in_over < 6,
\* total_runs is the sum of the batting cards' runs and of the bowling cards'
\* runs conceded, wickets_fallen is the sum of the bowling cards' wickets, and
\* the ball log is append-only with overs_completed*6 + balls_in_over entries
\* numbered 1, 2, 3, ... in order.
C39_BooksBalance ==
    [][BooksBalance(innings) /\ BooksBalance(innings')
       /\ AppendOnly(innings.ball_log, innings'.ball_log)]_vars

\* an over has been completed with runs scored and a wicket taken in it
C39_Witness ==
    /\ innings.overs_completed = 1 /\ Len(innings.ball_log) = BALLS_PER_OVER
    /\ innings.wickets_fallen >= 1 /\ innings.total_runs >= 3

\* a step that applies a captain's choice of the next bowler after an over,
\* or of the batter who comes in after a wicket
BowlerSeated == innings.needs_bowler_choice /\ ~innings'.needs_bowler_choice
                /\ innings.overs_completed > 0
BatterSeated == innings.needs_batter_choice /\ ~innings'.needs_batter_choice
                /\ innings.wickets_fallen > 0

\* the candidates of the batter choice that are enabled, other than name
OtherEnabledBatters(inn, name) ==
    {o.player : o \in {x \in Range(AvailableNextBatters(inn)) : ~x.disabled}} \ {name}

\* the bowlers of two balls that follow each other across the end of an over
\* differ
OversAlternate(inn) ==
    \A k \in 1..(Len(inn.ball_log) - 1) :
        inn.ball_log[k].over_complete => inn.ball_log[k + 1].bowler # inn.ball_log[k].bowler

\* C32: in a team-mode innings with at least two players a side, whoever
\* picks (any name the handlers accept; the CPU captain and the timeout take
\* the first of them), the bowler seated for an over is not the bowler of the
\* over before it, and the batter seated after a wicket is not the batter
\* just dismissed while another enabled candidate exists.
C32_NoConsecutiveReentry ==
    [][innings.is_team_mode =>
         /\ BowlerSeated =>
               /\ CurrentBowler(innings') # innings.ball_log[Len(innings.ball_log)].bowler
               /\ CurrentBowler(innings') # innings.last_bowler
         /\ BatterSeated =>
               \/ NonStriker(innings') # innings.last_batter_out
               \/ OtherEnabledBatters(innings, innings.last_batter_out) = {}
         /\ OversAlternate(innings')]_vars

\* a team-mode innings in which a bowler was chosen after the first over
\* and a batter after a wicket
C32_Witness ==
    /\ innings.is_team_mode
    /\ innings.overs_completed = 1 /\ innings.balls_in_over = 0
    /\ ~innings.needs_bowler_choice /\ ~innings.needs_batter_choice
    /\ innings.wickets_fallen >= 1
    /\ CurrentBowler(innings) # innings.last_bowler
    /\ innings.last_batter_out \notin {NoPlayer, NonStriker(innings)}

\* ------------------------------------------------------------------------
\* Claims about the captains' picks in the room
\* ------------------------------------------------------------------------
\* the names a pick may carry: the players of the match and a name the
\* room does not know
PickNames ==
    IF InMatch THEN Range(RoomMatch(W).side_a) \cup Range(RoomMatch(W).side_b) \cup {"nobody"}
    ELSE {"nobody"}

\* the PICK_BATTER and PICK_BOWLER messages the client of handler h can
\* send at any time: either kind, with any of these names
PickFrames(h) ==
    {[Frame("hp_entry") EXCEPT !.user = room.clients[h], !.role = r, !.arg = x] :
        r \in {"captain_bat", "captain_bowl"}, x \in PickNames}

\* the candidates of a choice that are not disabled
EnabledNames(inn, role) ==
    {o.player : o \in {x \in Range(IF role = "captain_bat" THEN AvailableNextBatters(inn)
                                   ELSE AvailableNextBowlers(inn)) : ~x.disabled}}

\* the submission f is one that is to be applied: its choice is pending, its
\* sender is the captain of the side that chooses and it names an enabled
\* candidate
Applicable(f) ==
    /\ InMatch
    /\ ActiveInnings(RoomMatch(W)) # 0
    /\ LET inn == RoomMatch(W).inns[ActiveInnings(RoomMatch(W))]
       IN /\ NeedsChoice(inn, f.role)
          /\ f.user = CaptainForSide(room, PickSide(inn, f.role))
          /\ f.arg \in EnabledNames(inn, f.role)

\* the named player has taken the seat the choice was for and the choice is
\* no longer pending
Seated(before, after, f) ==
    /\ ~NeedsChoice(after, f.role)
    /\ after.ball_log = before.ball_log
    /\ IF f.role = "captain_bowl" THEN CurrentBowler(after) = f.arg
       ELSE IF Len(before.ball_log) = 0 THEN Striker(after) = f.arg
       ELSE NonStriker(after) = f.arg

\* the room r is the room before the message: its fields with the timers and
\* the pending moves, the matches with their innings, and the tasks
Untouched(r) ==
    /\ r.room = room
    /\ r.matches = matches
    /\ r.dicts = dicts
    /\ r.tasks = tasks

\* what the handling of the submission f has to leave behind in r
PickHandled(f, r) ==
    IF Applicable(f)
    THEN Seated(RoomMatch(W).inns[ActiveInnings(RoomMatch(W))],
                r.matches[room.match].inns[ActiveInnings(RoomMatch(W))], f)
    ELSE Untouched(r)

\* C31: a PICK_BATTER or PICK_BOWLER is applied when its choice is pending,
\* its sender is the captain of the batting (bowling) side and it names an
\* enabled candidate; any other submission (wrong sender, unknown player,
\* disabled candidate, no choice pending) leaves the room with its timers and
\* pending moves, the matches with their innings and the tasks as they were.
C31_InvalidPickIgnored ==
    \A h \in HandlerIds :
        tasks[h].st = "idle" /\ Quiet /\ ~Stopped =>
            \A f \in PickFrames(h) : PickHandled(f, AfterMessage(h, f))

\* a human captain's pick has been applied: the opening striker of a side
\* captained by a human is its second player, whom neither a timeout nor a
\* CPU captain picks, while the bowling captain's choice is still pending
\* and the captain's partner, who is no captain, may send a pick
C31_Witness ==
    /\ InMatch /\ ActiveInnings(RoomMatch(W)) # 0
    /\ Quiet /\ \E h \in HandlerIds : tasks[h].st = "idle"
    /\ LET inn == RoomMatch(W).inns[ActiveInnings(RoomMatch(W))]
       IN /\ ~IsCpu(room, CaptainForSide(room, inn.batting_side))
          /\ Len(inn.ball_log) = 0 /\ inn.striker_idx = 2
          /\ ~inn.needs_batter_choice

\* the innings being played in the room, as an index into the innings of the
\* room's match (0 if there is none)
Playing == IF InMatch THEN ActiveInnings(RoomMatch(W)) ELSE 0

\* a captain's countdown is armed for the choice role of innings i of match m
CaptainCountdownArmed(role, m, i) ==
    \E t \in ArmedTimers :
        /\ tasks[t].stack[1].pc = "ct_fire"
        /\ tasks[t].stack[1].role = role
        /\ tasks[t].stack[1].m = m /\ tasks[t].stack[1].i = i
        /\ room.pending_timeouts[role] = t

\* a task of the orchestrator is asleep in a delay, on its way to go on with
\* the match (the innings break, the delay before the first ball, a CPU's
\* delay)
OnItsWay == \E t \in TaskIds : tasks[t].st = "sleep" /\ t \notin ArmedTimers

\* the choice role of the innings being played is waiting for a human captain
AwaitsHumanCaptain(role) ==
    /\ Playing # 0
    /\ ~RoomMatch(W).is_finished
    /\ LET inn == RoomMatch(W).inns[Playing]
       IN /\ NeedsChoice(inn, role)
          /\ CaptainForSide(room, PickSide(inn, role)) # NoPlayer
          /\ ~IsCpu(room, CaptainForSide(room, PickSide(inn, role)))

\* C35 (as stated): whenever the innings being played waits for a batter or
\* bowler choice of a human captain, the opening choices of an innings
\* included, a captain-pick countdown is armed for that choice (or the task
\* that is to arm it is still in a delay).
C35_PendingChoiceHasCountdown ==
    \A role \in {"captain_bat", "captain_bowl"} :
        (Quiet /\ AwaitsHumanCaptain(role)) =>
            \/ CaptainCountdownArmed(role, room.match, Playing)
            \/ OnItsWay

\* a task that will act when its sleep ends: an armed countdown, a CPU's
\* delay, a break.  The CPU toss timeouts are left out: once the toss choice
\* is made they return without doing anything (toss.py:21-24, 32-37).
WillAct ==
    \E t \in TaskIds :
        /\ tasks[t].st \in {"sleep", "dying"}
        /\ Top(W, t).pc \notin {"xc_fire", "xz_fire"}

\* an innings of the room's match is being played and is not complete
InPlay ==
    /\ Playing # 0
    /\ ~RoomMatch(W).is_finished
    /\ ~RoomMatch(W).inns[Playing].is_complete

\* C34 (as stated): once a match has been started and the toss choice made,
\* the match goes on to its end without any message of a human: no reachable
\* state leaves a delivery or a captain choice waiting with no countdown
\* armed and no task of the orchestrator or of a CPU pending.
C34_NeverStuck == (Quiet /\ InPlay) => WillAct

\* the room after handler h has received the toss message f, with won the
\* outcome of call == coin should the coin be flipped, run to its first sleep
\* or to its end
AfterToss(h, f, won) ==
    Collect(Run([W EXCEPT !.tasks[h] = [IdleTask EXCEPT !.st = "run", !.stack = <<f>>],
                          !.cur = h, !.obs.run = NoRun],
                [(CHOOSE ch \in Draws({}, "") : TRUE) EXCEPT !.won = won]))

\* in r the toss and the innings of the room's match are as they are now
SequenceKept(r) ==
    LET now == RoomMatch(W)
        then == r.matches[room.match]
    IN /\ then.toss_winner = now.toss_winner
       /\ then.toss_choice = now.toss_choice
       /\ then.batting_first = now.batting_first
       /\ then.bowling_first = now.bowling_first
       /\ then.current_innings = now.current_innings
       /\ then.slot = now.slot
       /\ then.inns = now.inns

\* C36 (as stated): a TOSS_CALL received after the toss has been resolved and
\* a TOSS_CHOICE received after the first innings has started change neither
\* the toss winner nor batting_first/bowling_first, start no innings and
\* replace none, and leave current_innings as it is.
C36_TossOnlyOnce ==
    \A h \in HandlerIds :
        tasks[h].st = "idle" /\ Quiet /\ ~Stopped /\ InMatch =>
            /\ RoomMatch(W).toss_winner # NoPlayer =>
                  \A won \in BOOLEAN :
                      SequenceKept(AfterToss(h, [Frame("tc_entry") EXCEPT !.user = room.clients[h]], won))
            /\ RoomMatch(W).current_innings # 0 =>
                  \A c \in TossChoices :
                      SequenceKept(AfterToss(h, [Frame("tz_entry") EXCEPT !.user = room.clients[h], !.role = c], TRUE))

\* the player a pending entry of the role stands for in the innings played
RolePlayer(role) ==
    IF role = "bat" THEN Striker(RoomMatch(W).inns[Playing])
    ELSE CurrentBowler(RoomMatch(W).inns[Playing])

\* the pending entry of the role was placed for the delivery now awaited, by
\* or for the player who now has the role, and by a CPU only for a CPU
EntryIsCurrent(role) ==
    /\ Pending(W)[role].del = CurrentDelivery
    /\ Pending(W)[role].user = RolePlayer(role)
    /\ Pending(W)[role].src = "cpu" => IsCpu(room, RolePlayer(role))

RecordCpuHistory(rm, inn, bat_move, bowl_move) ==
    IF ~rm.cpu_enabled THEN {}
    ELSE (IF Striker(inn) \in Range(rm.cpu_names)
          THEN {<<Striker(inn), "bowl", bowl_move>>} ELSE {})
         \cup
         (IF CurrentBowler(inn) \in Range(rm.cpu_names)
          THEN {<<CurrentBowler(inn), "bat", bat_move>>} ELSE {})

\* log_ball_for_learning: the arguments of log_ball_async; nothing is logged
\* when the striker and the bowler are both CPUs
LogBallForLearning(rm, inn, bat_move, bowl_move, res) ==
    [logged |-> ~(Striker(inn) \in Range(rm.cpu_names)
                  /\ CurrentBowler(inn) \in Range(rm.cpu_names)),
     ball_number |-> res.ball_num,
     batter_username |-> Striker(inn),
     bowler_username |-> CurrentBowler(inn),
     bat_move |-> bat_move, bowl_move |-> bowl_move,
     runs_scored |-> res.runs, is_out |-> res.is_out]

\* the moves a CPU's opponent history is to receive for a ball played by
\* striker and bowler
HistoryOf(rm, striker, bowler, bat_move, bowl_move) ==
    {<<striker, "bowl", bowl_move>> : x \in {striker} \cap Range(rm.cpu_names)}
    \cup {<<bowler, "bat", bat_move>> : x \in {bowler} \cap Range(rm.cpu_names)}

\* the ball out, played with the two moves, is logged and recorded (lines
\* 93-95 of resolve_pending_ball) under the striker and the bowler of its
\* result
Attributed(rm, out, bat_move, bowl_move) ==
    LET log == LogBallForLearning(rm, out.inn, bat_move, bowl_move, out.result)
    IN /\ log.logged => /\ log.batter_username = out.result.striker
                        /\ log.bowler_username = out.result.bowler
       /\ rm.cpu_enabled =>
             RecordCpuHistory(rm, out.inn, bat_move, bowl_move)
                = HistoryOf(rm, out.result.striker, out.result.bowler, bat_move, bowl_move)

\* C38 (as stated): whichever moves resolve the delivery that is awaited, the
\* ball is enqueued for learning, and recorded in a CPU's opponent history,
\* under the striker and the bowler stored in the ball's result, also when
\* the ball rotates the strike, takes a wicket or ends the over.
C38_AttributedToPlayers ==
    (Playing # 0 /\ ~RoomMatch(W).inns[Playing].is_complete
       /\ ~RoomMatch(W).inns[Playing].needs_batter_choice
       /\ ~RoomMatch(W).inns[Playing].needs_bowler_choice) =>
        \A b \in BatMoves, c \in BowlMoves :
            Attributed(room, ResolveBall(RoomMatch(W).inns[Playing], b, c), b, c)

\* C40 (as stated): while a match is on, no player's auto-move strike counter
\* exceeds MAX_AUTO_STRIKES, so that every AUTO_MOVE_WARNING carries
\* strikes <= max, and a match starts with the counters reset: until its
\* first innings is started every counter is 0.
C40_StrikesWithinMax ==
    /\ (InMatch /\ ~RoomMatch(W).is_finished) =>
          \A p \in AllPlayers : room.auto_move_strikes[p] <= MAX_AUTO_STRIKES
    /\ (InMatch /\ RoomMatch(W).current_innings = 0) =>
          room.auto_move_strikes = NoStrikes
====
